---- MODULE Spec2Model ----
(***************************************************************************)
(* Model of prepare_to_import_ninja.py: the tick-to-contract aggregation   *)
(* engine.  Text values (prices, timestamps, names, output lines) are      *)
(* sequences of one-character strings, so that parsing, slicing and        *)
(* formatting are computed character by character as the code does.        *)
(***************************************************************************)
EXTENDS Integers, Sequences, FiniteSets, TLC

VARIABLES
    pc,          \* control point of main()
    csv_paths,   \* the day-files main() has still to iterate over
    forced_symbol, \* the --symbol argument, None when absent
    ruta_in,     \* the --in argument: "file", "dir" or "missing", what the path is on disk
    handles,     \* ContractWriters.handles : ContractKey -> handle id
    state,       \* ContractWriters.state   : ContractKey -> bid/ask/last
    fds,         \* every file object opened by get_writer, in opening order
    out,         \* text written to each contract's output file, one write per element
    cur,         \* locals of export_csv_day_to_contract_last_allformat
    tot,         \* run-level counters of main()
    closeCalls,  \* number of executions of ContractWriters.close
    nread,       \* lines read from day-files so far in the run
    seen,        \* history: <<contract, event>> for every handle acquisition and
                 \* every Level-1 BID or ASK row handled so far in the run
    fnIn,        \* the input handed to a function, or to two runs over the same files
    fnOut        \* the function's result, or what the first of the two runs produced

vars == <<pc, csv_paths, forced_symbol, ruta_in, handles, state, fds, out, cur, tot, closeCalls,
          nread, seen, fnIn, fnOut>>

\* Python's None where a text is optional: distinct from every text, whose elements
\* are single characters.
None == <<"None">>

(***************************************************************************)
(* Bounds of the model.                                                    *)
(***************************************************************************)
MaxFiles == 2
MaxRows == 4
MinYear == 2023
MaxYear == 2025

(***************************************************************************)
(* Text helpers.                                                           *)
(***************************************************************************)
Digits == <<"0", "1", "2", "3", "4", "5", "6", "7", "8", "9">>

IsDigit(c) == \E i \in 1..10 : Digits[i] = c

DigitVal(c) == (CHOOSE i \in 1..10 : Digits[i] = c) - 1

\* the whitespace str.strip() removes
IsSpace(c) == c \in {" ", "\t", "\n", "\r"}

RECURSIVE LStrip(_)
LStrip(s) == IF s # <<>> /\ IsSpace(Head(s)) THEN LStrip(Tail(s)) ELSE s

RECURSIVE RStrip(_)
RStrip(s) ==
    IF s # <<>> /\ IsSpace(s[Len(s)]) THEN RStrip(SubSeq(s, 1, Len(s) - 1)) ELSE s

Strip(s) == RStrip(LStrip(s))

AllDigits(s) == s # <<>> /\ \A i \in 1..Len(s) : IsDigit(s[i])

\* Characters outside ASCII, each written as one element naming its code point:
\* ARABIC-INDIC DIGIT THREE (category Nd) and SUPERSCRIPT TWO (category No).
ArabicThree == "U+0663"
SuperTwo == "U+00B2"

\* str.isdigit() of one character: true of decimal digits of any script and of
\* superscript digits
IsDigitChar(c) == IsDigit(c) \/ c \in {ArabicThree, SuperTwo}

\* str.isdigit()
StrIsDigit(s) == s # <<>> /\ \A i \in 1..Len(s) : IsDigitChar(s[i])

\* the characters int() reads as decimal digits (category Nd), and their values
IsDecimalChar(c) == IsDigit(c) \/ c = ArabicThree

DecimalVal(c) == IF c = ArabicThree THEN 3 ELSE DigitVal(c)

RECURSIVE DecimalsToNat(_)
DecimalsToNat(s) ==
    IF s = <<>> THEN 0
    ELSE 10 * DecimalsToNat(SubSeq(s, 1, Len(s) - 1)) + DecimalVal(s[Len(s)])

RECURSIVE DigitsToNat(_)
DigitsToNat(s) ==
    IF s = <<>> THEN 0
    ELSE 10 * DigitsToNat(SubSeq(s, 1, Len(s) - 1)) + DigitVal(s[Len(s)])

RECURSIVE Pow10(_)
Pow10(n) == IF n = 0 THEN 1 ELSE 10 * Pow10(n - 1)

(***************************************************************************)
(* decimal.Decimal: construction from text and ordering comparison.        *)
(* The grammar covers optional sign, digits with at most one point, and    *)
(* the special values NaN and Infinity; exponents, digit-group underscores *)
(* and non-ASCII digits do not occur in the modelled alphabet.             *)
(***************************************************************************)
DecInvalid == [kind |-> "invalid"]

DecBody(sign, b) ==
    LET dots == {i \in 1..Len(b) : b[i] = "."} IN
    IF b \in {<<"N", "a", "N">>, <<"n", "a", "n">>} THEN [kind |-> "nan"]
    ELSE IF b \in {<<"I", "n", "f", "i", "n", "i", "t", "y">>, <<"I", "n", "f">>}
    THEN [kind |-> "inf", sign |-> sign]
    ELSE IF dots = {} THEN
        IF AllDigits(b)
        THEN [kind |-> "fin", sign |-> sign, coeff |-> DigitsToNat(b), frac |-> 0]
        ELSE DecInvalid
    ELSE IF Cardinality(dots) = 1 THEN
        LET p == CHOOSE i \in dots : TRUE
            ip == SubSeq(b, 1, p - 1)
            fp == SubSeq(b, p + 1, Len(b))
        IN  IF /\ Len(ip) + Len(fp) > 0
               /\ \A i \in 1..Len(ip) : IsDigit(ip[i])
               /\ \A i \in 1..Len(fp) : IsDigit(fp[i])
            THEN [kind |-> "fin", sign |-> sign,
                  coeff |-> DigitsToNat(ip \o fp), frac |-> Len(fp)]
            ELSE DecInvalid
    ELSE DecInvalid

\* Decimal(text): a value, or DecInvalid where the constructor raises InvalidOperation.
Decimal(text) ==
    LET s == Strip(text) IN
    IF s = <<>> THEN DecInvalid
    ELSE IF Head(s) = "-" THEN DecBody(-1, Tail(s))
    ELSE IF Head(s) = "+" THEN DecBody(1, Tail(s))
    ELSE DecBody(1, s)

\* Three-way ordering of two Decimal values: "lt", "eq", "gt", or "raise" where an
\* ordering comparison involving NaN raises InvalidOperation.
DecCompare(a, b) ==
    IF a.kind = "nan" \/ b.kind = "nan" THEN "raise"
    ELSE LET rank(x) == IF x.kind = "inf" THEN 2 * x.sign ELSE 0 IN
         IF a.kind = "inf" \/ b.kind = "inf" THEN
             IF rank(a) < rank(b) THEN "lt"
             ELSE IF rank(a) > rank(b) THEN "gt" ELSE "eq"
         ELSE LET x == a.sign * a.coeff * Pow10(b.frac)
                  y == b.sign * b.coeff * Pow10(a.frac)
              IN  IF x < y THEN "lt" ELSE IF x > y THEN "gt" ELSE "eq"

(***************************************************************************)
(* clamp_bbo_with_last                                                     *)
(***************************************************************************)
ClampResult(bid_out, ask_out, clamp_bid, clamp_ask) ==
    [exc |-> FALSE, bid_out |-> bid_out, ask_out |-> ask_out,
     clamp_bid |-> clamp_bid, clamp_ask |-> clamp_ask]

ClampRaise == [exc |-> TRUE]

\* variant: the bid is passed through, only the ask is clamped
clamp_bbo_ask_only(last_str, bid_str, ask_str) ==
    LET d_last == Decimal(last_str)
        d_bid  == Decimal(bid_str)
        d_ask  == Decimal(ask_str)
    IN  IF "invalid" \in {d_last.kind, d_bid.kind, d_ask.kind}
        THEN ClampResult(bid_str, ask_str, FALSE, FALSE)
        ELSE LET cb == DecCompare(d_bid, d_last)
                 ca == DecCompare(d_ask, d_last)
             IN  IF cb = "raise" \/ ca = "raise" THEN ClampRaise
                 ELSE ClampResult(bid_str, IF ca = "lt" THEN last_str ELSE ask_str,
                                  FALSE, ca = "lt")

\* variant: a text that is no decimal is not caught and the error leaves the function
clamp_bbo_uncaught(last_str, bid_str, ask_str) ==
    LET d_last == Decimal(last_str)
        d_bid  == Decimal(bid_str)
        d_ask  == Decimal(ask_str)
    IN  IF "invalid" \in {d_last.kind, d_bid.kind, d_ask.kind}
        THEN ClampRaise
        ELSE LET cb == DecCompare(d_bid, d_last)
                 ca == DecCompare(d_ask, d_last)
             IN  IF cb = "raise" \/ ca = "raise" THEN ClampRaise
                 ELSE ClampResult(IF cb = "gt" THEN last_str ELSE bid_str,
                                  IF ca = "lt" THEN last_str ELSE ask_str,
                                  cb = "gt", ca = "lt")

clamp_bbo_with_last(last_str, bid_str, ask_str) ==
    LET d_last == Decimal(last_str)
        d_bid  == Decimal(bid_str)
        d_ask  == Decimal(ask_str)
    IN  IF "invalid" \in {d_last.kind, d_bid.kind, d_ask.kind}
        THEN ClampResult(bid_str, ask_str, FALSE, FALSE)
        ELSE LET cb == DecCompare(d_bid, d_last)
                 ca == DecCompare(d_ask, d_last)
             IN  IF cb = "raise" \/ ca = "raise" THEN ClampRaise
                 ELSE ClampResult(IF cb = "gt" THEN last_str ELSE bid_str,
                                  IF ca = "lt" THEN last_str ELSE ask_str,
                                  cb = "gt", ca = "lt")

(***************************************************************************)
(* datetime.date, second_friday, front_contract_for_date                   *)
(***************************************************************************)
IsLeap(y) == y % 4 = 0 /\ (y % 100 # 0 \/ y % 400 = 0)

DaysInMonth(y, m) ==
    IF m = 2 THEN (IF IsLeap(y) THEN 29 ELSE 28)
    ELSE IF m \in {4, 6, 9, 11} THEN 30 ELSE 31

ValidDate(y, m, d) == y \in 1..9999 /\ m \in 1..12 /\ d \in 1..DaysInMonth(y, m)

MkDate(y, m, d) == [year |-> y, month |-> m, day |-> d]

RECURSIVE DaysBeforeMonth(_, _)
DaysBeforeMonth(y, m) ==
    IF m = 1 THEN 0 ELSE DaysBeforeMonth(y, m - 1) + DaysInMonth(y, m - 1)

ToOrdinal(d) ==
    LET y1 == d.year - 1 IN
    y1 * 365 + (y1 \div 4) - (y1 \div 100) + (y1 \div 400)
        + DaysBeforeMonth(d.year, d.month) + d.day

\* date.weekday(): Monday = 0 ... Sunday = 6
Weekday(d) == (ToOrdinal(d) + 6) % 7

NextDay(d) ==
    IF d.day < DaysInMonth(d.year, d.month) THEN MkDate(d.year, d.month, d.day + 1)
    ELSE IF d.month < 12 THEN MkDate(d.year, d.month + 1, 1)
    ELSE MkDate(d.year + 1, 1, 1)

\* d + timedelta(days=n), n >= 0
RECURSIVE AddDays(_, _)
AddDays(d, n) == IF n = 0 THEN d ELSE AddDays(NextDay(d), n - 1)

\* d1 < d2 on dates
DateLT(d1, d2) ==
    \/ d1.year < d2.year
    \/ d1.year = d2.year /\ d1.month < d2.month
    \/ d1.year = d2.year /\ d1.month = d2.month /\ d1.day < d2.day

second_friday(year, month) ==
    LET d0 == MkDate(year, month, 1)
        offset == (4 - Weekday(d0)) % 7
        first_friday == AddDays(d0, offset)
    IN  AddDays(first_friday, 7)

\* variant: the roll date itself still belongs to the expiring contract
front_contract_roll_day_old(d) ==
    LET r_mar == second_friday(d.year, 3)
        r_jun == second_friday(d.year, 6)
        r_sep == second_friday(d.year, 9)
        r_dec == second_friday(d.year, 12)
    IN  IF ~DateLT(r_mar, d) THEN <<3, d.year>>
        ELSE IF ~DateLT(r_jun, d) THEN <<6, d.year>>
        ELSE IF ~DateLT(r_sep, d) THEN <<9, d.year>>
        ELSE IF ~DateLT(r_dec, d) THEN <<12, d.year>>
        ELSE <<3, d.year + 1>>

\* variant: after the December roll the year is not advanced
front_contract_same_year(d) ==
    LET r_mar == second_friday(d.year, 3)
        r_jun == second_friday(d.year, 6)
        r_sep == second_friday(d.year, 9)
        r_dec == second_friday(d.year, 12)
    IN  IF DateLT(d, r_mar) THEN <<3, d.year>>
        ELSE IF DateLT(d, r_jun) THEN <<6, d.year>>
        ELSE IF DateLT(d, r_sep) THEN <<9, d.year>>
        ELSE IF DateLT(d, r_dec) THEN <<12, d.year>>
        ELSE <<3, d.year>>

front_contract_for_date(d) ==
    LET r_mar == second_friday(d.year, 3)
        r_jun == second_friday(d.year, 6)
        r_sep == second_friday(d.year, 9)
        r_dec == second_friday(d.year, 12)
    IN  IF DateLT(d, r_mar) THEN <<3, d.year>>
        ELSE IF DateLT(d, r_jun) THEN <<6, d.year>>
        ELSE IF DateLT(d, r_sep) THEN <<9, d.year>>
        ELSE IF DateLT(d, r_dec) THEN <<12, d.year>>
        ELSE <<3, d.year + 1>>

(***************************************************************************)
(* ContractKey: label and outfile                                          *)
(***************************************************************************)
ContractKey(symbol, month, year) == [symbol |-> symbol, month |-> month, year |-> year]

\* format spec 02d for 0 <= n < 100
Fmt02(n) == <<Digits[(n \div 10) + 1], Digits[(n % 10) + 1]>>

label(ck) == Fmt02(ck.month) \o <<"-">> \o Fmt02(ck.year % 100)

outfile(ck) ==
    ck.symbol \o <<" ">> \o label(ck) \o <<".", "L", "a", "s", "t", ".", "t", "x", "t">>

(***************************************************************************)
(* Path inference.  A path is <<grandparent name, parent name, file name>>.*)
(***************************************************************************)
Upper == <<"A", "B", "C", "D", "E", "F", "G", "H", "I", "J", "K", "L", "M",
           "N", "O", "P", "Q", "R", "S", "T", "U", "V", "W", "X", "Y", "Z">>

Lower == <<"a", "b", "c", "d", "e", "f", "g", "h", "i", "j", "k", "l", "m",
           "n", "o", "p", "q", "r", "s", "t", "u", "v", "w", "x", "y", "z">>

IsAlnum(c) == IsDigit(c) \/ \E i \in 1..26 : Upper[i] = c \/ Lower[i] = c

\* _RE_FOLDER = ^([A-Za-z0-9]+)_T[12]_\d{6}$ : group 1 (never empty), or <<>> when
\* there is no match
RE_FOLDER(name) ==
    LET us == {i \in 1..Len(name) : name[i] = "_"} IN
    IF us = {} THEN <<>>
    ELSE LET i == CHOOSE k \in us : \A j \in us : k <= j
             sym == SubSeq(name, 1, i - 1)
             rest == SubSeq(name, i, Len(name))
         IN  IF /\ sym # <<>>
                /\ \A k \in 1..Len(sym) : IsAlnum(sym[k])
                /\ Len(rest) = 10
                /\ rest[1] = "_" /\ rest[2] = "T" /\ rest[3] \in {"1", "2"} /\ rest[4] = "_"
                /\ AllDigits(SubSeq(rest, 5, 10))
             THEN sym
             ELSE <<>>

\* _RE_FILE_DATE = ^(\d{8})\.csv$ : group 1, or <<>> when there is no match
RE_FILE_DATE(name) ==
    IF /\ Len(name) = 12
       /\ AllDigits(SubSeq(name, 1, 8))
       /\ SubSeq(name, 9, 12) = <<".", "c", "s", "v">>
    THEN SubSeq(name, 1, 8)
    ELSE <<>>

\* A raised ValueError, where a function otherwise returns [ok |-> TRUE, val |-> ...]
ValueError == [ok |-> FALSE]

Ok(v) == [ok |-> TRUE, val |-> v]

\* variant: the grandparent directory is tried before the parent
infer_symbol_grandparent_first(csv_path, forced) ==
    IF forced # None /\ forced # <<>> THEN Ok(forced)
    ELSE IF RE_FOLDER(csv_path[1]) # <<>> THEN Ok(RE_FOLDER(csv_path[1]))
    ELSE IF RE_FOLDER(csv_path[2]) # <<>> THEN Ok(RE_FOLDER(csv_path[2]))
    ELSE ValueError

\* forced is None or a text; None and the empty text are both falsy
infer_symbol_from_path(csv_path, forced) ==
    IF forced # None /\ forced # <<>> THEN Ok(forced)
    ELSE IF RE_FOLDER(csv_path[2]) # <<>> THEN Ok(RE_FOLDER(csv_path[2]))
    ELSE IF RE_FOLDER(csv_path[1]) # <<>> THEN Ok(RE_FOLDER(csv_path[1]))
    ELSE ValueError

\* variant: a day past the end of the month is taken as the month's last day
infer_trade_date_clamped(csv_path) ==
    LET yyyymmdd == RE_FILE_DATE(csv_path[3]) IN
    IF yyyymmdd = <<>> THEN ValueError
    ELSE LET y == DigitsToNat(SubSeq(yyyymmdd, 1, 4))
             m == DigitsToNat(SubSeq(yyyymmdd, 5, 6))
             d == DigitsToNat(SubSeq(yyyymmdd, 7, 8))
         IN  IF ValidDate(y, m, 1)
             THEN Ok(MkDate(y, m, IF d \in 1..DaysInMonth(y, m) THEN d
                                  ELSE DaysInMonth(y, m)))
             ELSE ValueError

infer_trade_date_from_filename(csv_path) ==
    LET yyyymmdd == RE_FILE_DATE(csv_path[3]) IN
    IF yyyymmdd = <<>> THEN ValueError
    ELSE LET y == DigitsToNat(SubSeq(yyyymmdd, 1, 4))
             m == DigitsToNat(SubSeq(yyyymmdd, 5, 6))
             d == DigitsToNat(SubSeq(yyyymmdd, 7, 8))
         IN  IF ValidDate(y, m, d) THEN Ok(MkDate(y, m, d)) ELSE ValueError

(***************************************************************************)
(* Line parsing                                                            *)
(***************************************************************************)
TYPE_BID == 0
TYPE_ASK == 1
TYPE_LAST == 2

\* int(text): [ok, val]; ok is FALSE where int() raises ValueError
IntParse(text) ==
    LET s == Strip(text)
        body == IF s # <<>> /\ Head(s) \in {"+", "-"} THEN Tail(s) ELSE s
    IN  IF body # <<>> /\ \A i \in 1..Len(body) : IsDecimalChar(body[i])
        THEN [ok |-> TRUE,
              val |-> IF s # <<>> /\ Head(s) = "-" THEN 0 - DecimalsToNat(body)
                      ELSE DecimalsToNat(body)]
        ELSE [ok |-> FALSE, val |-> 0]

\* the returned tuple, or ParsedNone where the function returns None
ParsedNone == [ok |-> FALSE]

\* variant: a row of 6 fields is read like a row of 5
parse_line_fields_six(campos) ==
    IF Len(campos) \notin {5, 6, 7} THEN ParsedNone
    ELSE LET timestamp_raw == Strip(campos[1]) IN
         IF Len(timestamp_raw) # 20 \/ ~StrIsDigit(timestamp_raw) THEN ParsedNone
         ELSE IF ~IntParse(campos[2]).ok \/ ~IntParse(campos[3]).ok THEN ParsedNone
         ELSE [ok |-> TRUE, ts20 |-> timestamp_raw, level |-> IntParse(campos[2]).val,
               tipo |-> IntParse(campos[3]).val, price_str |-> Strip(campos[4]),
               volume_str |-> Strip(campos[5])]

parse_line_fields(campos) ==
    IF Len(campos) \notin {5, 7} THEN ParsedNone
    ELSE LET timestamp_raw == Strip(campos[1]) IN
         IF Len(timestamp_raw) # 20 \/ ~StrIsDigit(timestamp_raw) THEN ParsedNone
         ELSE IF ~IntParse(campos[2]).ok \/ ~IntParse(campos[3]).ok THEN ParsedNone
         ELSE [ok |-> TRUE, ts20 |-> timestamp_raw, level |-> IntParse(campos[2]).val,
               tipo |-> IntParse(campos[3]).val, price_str |-> Strip(campos[4]),
               volume_str |-> Strip(campos[5])]

ts20_to_nt_parts(ts20) ==
    <<SubSeq(ts20, 1, 8), SubSeq(ts20, 9, 14), SubSeq(ts20, 15, 20) \o <<"0">>>>

\* the f-string written for an emitted trade
FormatLine(fecha, hora, frac7, price_str, bid_out, ask_out, volume_str) ==
    fecha \o <<" ">> \o hora \o <<" ">> \o frac7 \o <<";">> \o price_str \o <<";">>
        \o bid_out \o <<";">> \o ask_out \o <<";">> \o volume_str \o <<"\n">>
(***************************************************************************)
(* ContractWriters                                                         *)
(***************************************************************************)
NewState == [last |-> None, bid |-> None, ask |-> None]

\* variant: the file is opened on every acquisition
get_writer_reopen(h, f, o, ck) ==
    [handles |-> [k \in DOMAIN h \cup {ck} |-> IF k = ck THEN Len(f) + 1 ELSE h[k]],
     fds |-> Append(f, [name |-> outfile(ck), open |-> TRUE, dirty |-> FALSE]),
     out |-> IF outfile(ck) \in DOMAIN o THEN o ELSE o @@ (outfile(ck) :> <<>>)]

\* variant: the output is opened in mode "w", which empties an existing file
get_writer_truncate(h, f, o, ck) ==
    IF ck \in DOMAIN h THEN [handles |-> h, fds |-> f, out |-> o]
    ELSE [handles |-> h @@ (ck :> Len(f) + 1),
          fds |-> Append(f, [name |-> outfile(ck), open |-> TRUE, dirty |-> FALSE]),
          out |-> [n \in DOMAIN o \cup {outfile(ck)} |->
                      IF n = outfile(ck) THEN <<>> ELSE o[n]]]

\* get_writer: the handle map, the file objects and the files on disk after the call;
\* the returned handle is handles[ck] of the result
get_writer(h, f, o, ck) ==
    IF ck \in DOMAIN h THEN [handles |-> h, fds |-> f, out |-> o]
    ELSE [handles |-> h @@ (ck :> Len(f) + 1),
          fds |-> Append(f, [name |-> outfile(ck), open |-> TRUE, dirty |-> FALSE]),
          out |-> IF outfile(ck) \in DOMAIN o THEN o ELSE o @@ (outfile(ck) :> <<>>)]

\* variant: the state dict is created anew on every call
get_state_fresh(st, ck) ==
    [k \in DOMAIN st \cup {ck} |-> IF k = ck THEN NewState ELSE st[k]]

\* variant: a new contract starts from the state of a contract already known
get_state_inherits(st, ck) ==
    IF ck \in DOMAIN st THEN st
    ELSE st @@ (ck :> IF DOMAIN st = {} THEN NewState
                      ELSE st[CHOOSE k \in DOMAIN st : TRUE])

\* get_state: the state map after the call; the returned dict is st[ck] of the result
get_state(st, ck) == IF ck \in DOMAIN st THEN st ELSE st @@ (ck :> NewState)

\* variant: the first handle whose flush raises ends the loop over the handles
close_stops_at_failure(h, f, flushFails) ==
    [i \in DOMAIN f |->
        IF (\E ck \in DOMAIN h : h[ck] = i) /\ \A j \in flushFails : i < j
        THEN [f[i] EXCEPT !.open = FALSE, !.dirty = FALSE]
        ELSE f[i]]

\* close: flush and close each handle; a handle whose flush raises is left as it was
\* (the except clause swallows the error before fp.close() is reached)
close(h, f, flushFails) ==
    [i \in DOMAIN f |->
        IF (\E ck \in DOMAIN h : h[ck] = i) /\ i \notin flushFails
        THEN [f[i] EXCEPT !.open = FALSE, !.dirty = FALSE]
        ELSE f[i]]

EmptyMap == [x \in {} |-> <<>>]

(***************************************************************************)
(* export_csv_day_to_contract_last_allformat: one row of the day-file      *)
(***************************************************************************)
NoKey == ContractKey(<<>>, 0, 0)

NoCur == [ck |-> NoKey, fout |-> 0, total_lineas |-> 0, lineas_validas |-> 0,
          l1_total |-> 0, l1_trades_emitidos |-> 0, clamps_aplicados |-> 0]

\* Effect of the loop body on one row yielded by iter_csv_lineas: the locals, the
\* contract's state dict, the text written (at most one line) and whether an exception
\* left the function.
RowEffect(c, st, written, exc) == [cur |-> c, st |-> st, written |-> written, exc |-> exc]

BothKnownEither(st) == st.bid # None \/ st.ask # None

\* the guard of an emission: bid and ask are both known
BothKnown(st) == st.bid # None /\ st.ask # None

\* variant: a BID row also forgets the last trade
ProcessRowBidResetsLast(c, st, campos) ==
    LET c1 == [c EXCEPT !.total_lineas = @ + 1]
        parsed == parse_line_fields(campos)
    IN  IF ~parsed.ok THEN RowEffect(c1, st, <<>>, FALSE)
        ELSE LET c2 == [c1 EXCEPT !.lineas_validas = @ + 1] IN
        IF parsed.level # 1 THEN RowEffect(c2, st, <<>>, FALSE)
        ELSE LET c3 == [c2 EXCEPT !.l1_total = @ + 1]
                 parts == ts20_to_nt_parts(parsed.ts20)
             IN
        IF parsed.tipo = TYPE_BID
        THEN RowEffect(c3, [st EXCEPT !.bid = parsed.price_str, !.last = None], <<>>, FALSE)
        ELSE IF parsed.tipo = TYPE_ASK
        THEN RowEffect(c3, [st EXCEPT !.ask = parsed.price_str], <<>>, FALSE)
        ELSE IF parsed.tipo = TYPE_LAST
        THEN LET st1 == [st EXCEPT !.last = parsed.price_str] IN
             IF BothKnown(st1)
             THEN LET r == clamp_bbo_with_last(parsed.price_str, st1.bid, st1.ask) IN
                  IF r.exc THEN RowEffect(c3, st1, <<>>, TRUE)
                  ELSE RowEffect(
                         [c3 EXCEPT !.clamps_aplicados =
                                        IF r.clamp_bid \/ r.clamp_ask THEN @ + 1 ELSE @,
                                    !.l1_trades_emitidos = @ + 1],
                         st1,
                         <<FormatLine(parts[1], parts[2], parts[3], parsed.price_str,
                                      r.bid_out, r.ask_out, parsed.volume_str)>>,
                         FALSE)
             ELSE RowEffect(c3, st1, <<>>, FALSE)
        ELSE RowEffect(c3, st, <<>>, FALSE)

\* variant: the clamped bid and ask are stored back into the state
ProcessRowWriteBack(c, st, campos) ==
    LET c1 == [c EXCEPT !.total_lineas = @ + 1]
        parsed == parse_line_fields(campos)
    IN  IF ~parsed.ok THEN RowEffect(c1, st, <<>>, FALSE)
        ELSE LET c2 == [c1 EXCEPT !.lineas_validas = @ + 1] IN
        IF parsed.level # 1 THEN RowEffect(c2, st, <<>>, FALSE)
        ELSE LET c3 == [c2 EXCEPT !.l1_total = @ + 1]
                 parts == ts20_to_nt_parts(parsed.ts20)
             IN
        IF parsed.tipo = TYPE_BID
        THEN RowEffect(c3, [st EXCEPT !.bid = parsed.price_str], <<>>, FALSE)
        ELSE IF parsed.tipo = TYPE_ASK
        THEN RowEffect(c3, [st EXCEPT !.ask = parsed.price_str], <<>>, FALSE)
        ELSE IF parsed.tipo = TYPE_LAST
        THEN LET st1 == [st EXCEPT !.last = parsed.price_str] IN
             IF BothKnown(st1)
             THEN LET r == clamp_bbo_with_last(parsed.price_str, st1.bid, st1.ask) IN
                  IF r.exc THEN RowEffect(c3, st1, <<>>, TRUE)
                  ELSE RowEffect(
                         [c3 EXCEPT !.clamps_aplicados =
                                        IF r.clamp_bid \/ r.clamp_ask THEN @ + 1 ELSE @,
                                    !.l1_trades_emitidos = @ + 1],
                         [st1 EXCEPT !.bid = r.bid_out, !.ask = r.ask_out],
                         <<FormatLine(parts[1], parts[2], parts[3], parsed.price_str,
                                      r.bid_out, r.ask_out, parsed.volume_str)>>,
                         FALSE)
             ELSE RowEffect(c3, st1, <<>>, FALSE)
        ELSE RowEffect(c3, st, <<>>, FALSE)

\* variant: a clamp of the bid and a clamp of the ask are counted separately
ProcessRowClampPerSide(c, st, campos) ==
    LET c1 == [c EXCEPT !.total_lineas = @ + 1]
        parsed == parse_line_fields(campos)
    IN  IF ~parsed.ok THEN RowEffect(c1, st, <<>>, FALSE)
        ELSE LET c2 == [c1 EXCEPT !.lineas_validas = @ + 1] IN
        IF parsed.level # 1 THEN RowEffect(c2, st, <<>>, FALSE)
        ELSE LET c3 == [c2 EXCEPT !.l1_total = @ + 1]
                 parts == ts20_to_nt_parts(parsed.ts20)
             IN
        IF parsed.tipo = TYPE_BID
        THEN RowEffect(c3, [st EXCEPT !.bid = parsed.price_str], <<>>, FALSE)
        ELSE IF parsed.tipo = TYPE_ASK
        THEN RowEffect(c3, [st EXCEPT !.ask = parsed.price_str], <<>>, FALSE)
        ELSE IF parsed.tipo = TYPE_LAST
        THEN LET st1 == [st EXCEPT !.last = parsed.price_str] IN
             IF BothKnown(st1)
             THEN LET r == clamp_bbo_with_last(parsed.price_str, st1.bid, st1.ask) IN
                  IF r.exc THEN RowEffect(c3, st1, <<>>, TRUE)
                  ELSE RowEffect(
                         [c3 EXCEPT !.clamps_aplicados =
                                        @ + (IF r.clamp_bid THEN 1 ELSE 0)
                                          + (IF r.clamp_ask THEN 1 ELSE 0),
                                    !.l1_trades_emitidos = @ + 1],
                         st1,
                         <<FormatLine(parts[1], parts[2], parts[3], parsed.price_str,
                                      r.bid_out, r.ask_out, parsed.volume_str)>>,
                         FALSE)
             ELSE RowEffect(c3, st1, <<>>, FALSE)
        ELSE RowEffect(c3, st, <<>>, FALSE)

\* variant: the level of a row is not looked at
ProcessRowAnyLevel(c, st, campos) ==
    LET c1 == [c EXCEPT !.total_lineas = @ + 1]
        parsed == parse_line_fields(campos)
    IN  IF ~parsed.ok THEN RowEffect(c1, st, <<>>, FALSE)
        ELSE LET c3 == [c1 EXCEPT !.lineas_validas = @ + 1, !.l1_total = @ + 1]
                 parts == ts20_to_nt_parts(parsed.ts20)
             IN
        IF parsed.tipo = TYPE_BID
        THEN RowEffect(c3, [st EXCEPT !.bid = parsed.price_str], <<>>, FALSE)
        ELSE IF parsed.tipo = TYPE_ASK
        THEN RowEffect(c3, [st EXCEPT !.ask = parsed.price_str], <<>>, FALSE)
        ELSE IF parsed.tipo = TYPE_LAST
        THEN LET st1 == [st EXCEPT !.last = parsed.price_str] IN
             IF BothKnown(st1)
             THEN LET r == clamp_bbo_with_last(parsed.price_str, st1.bid, st1.ask) IN
                  IF r.exc THEN RowEffect(c3, st1, <<>>, TRUE)
                  ELSE RowEffect(
                         [c3 EXCEPT !.clamps_aplicados =
                                        IF r.clamp_bid \/ r.clamp_ask THEN @ + 1 ELSE @,
                                    !.l1_trades_emitidos = @ + 1],
                         st1,
                         <<FormatLine(parts[1], parts[2], parts[3], parsed.price_str,
                                      r.bid_out, r.ask_out, parsed.volume_str)>>,
                         FALSE)
             ELSE RowEffect(c3, st1, <<>>, FALSE)
        ELSE RowEffect(c3, st, <<>>, FALSE)

ProcessRow(c, st, campos) ==
    LET c1 == [c EXCEPT !.total_lineas = @ + 1]
        parsed == parse_line_fields(campos)
    IN  IF ~parsed.ok THEN RowEffect(c1, st, <<>>, FALSE)
        ELSE LET c2 == [c1 EXCEPT !.lineas_validas = @ + 1] IN
        IF parsed.level # 1 THEN RowEffect(c2, st, <<>>, FALSE)
        ELSE LET c3 == [c2 EXCEPT !.l1_total = @ + 1]
                 parts == ts20_to_nt_parts(parsed.ts20)
             IN
        IF parsed.tipo = TYPE_BID
        THEN RowEffect(c3, [st EXCEPT !.bid = parsed.price_str], <<>>, FALSE)
        ELSE IF parsed.tipo = TYPE_ASK
        THEN RowEffect(c3, [st EXCEPT !.ask = parsed.price_str], <<>>, FALSE)
        ELSE IF parsed.tipo = TYPE_LAST
        THEN LET st1 == [st EXCEPT !.last = parsed.price_str] IN
             IF BothKnown(st1)
             THEN LET r == clamp_bbo_with_last(parsed.price_str, st1.bid, st1.ask) IN
                  IF r.exc THEN RowEffect(c3, st1, <<>>, TRUE)
                  ELSE RowEffect(
                         [c3 EXCEPT !.clamps_aplicados =
                                        IF r.clamp_bid \/ r.clamp_ask THEN @ + 1 ELSE @,
                                    !.l1_trades_emitidos = @ + 1],
                         st1,
                         <<FormatLine(parts[1], parts[2], parts[3], parsed.price_str,
                                      r.bid_out, r.ask_out, parsed.volume_str)>>,
                         FALSE)
             ELSE RowEffect(c3, st1, <<>>, FALSE)
        ELSE RowEffect(c3, st, <<>>, FALSE)

\* variant: the rows without fields are yielded too
iter_csv_lineas_all(lineas) == lineas

\* the rows csv.reader yields for the lines of a file, without the rows that have no
\* field
iter_csv_lineas(lineas) == SelectSeq(lineas, LAMBDA campos : campos # <<>>)

\* the for loop of the export function over the rows yielded, from locals c and state
\* st: the locals and the state at the end, all the text written, and whether an
\* exception left the loop (the rows after it are not read)
Joined(written, r) == RowEffect(r.cur, r.st, written \o r.written, r.exc)

RECURSIVE ExportRows(_, _, _)
AfterRow(e, rest) ==
    IF e.exc THEN e ELSE Joined(e.written, ExportRows(e.cur, e.st, rest))

ExportRows(c, st, rows) ==
    IF rows = <<>> THEN RowEffect(c, st, <<>>, FALSE)
    ELSE AfterRow(ProcessRow(c, st, Head(rows)), Tail(rows))

(***************************************************************************)
(* Inputs of the run: day-files and their rows.                            *)
(***************************************************************************)
\* code points order the characters that occur in paths
CharOrder == <<" ", "-", ".">> \o Digits \o Upper \o <<"_">> \o Lower

CharRank(c) == CHOOSE i \in 1..Len(CharOrder) : CharOrder[i] = c

RECURSIVE StrLT(_, _)
StrLT(a, b) ==
    IF b = <<>> THEN FALSE
    ELSE IF a = <<>> THEN TRUE
    ELSE IF Head(a) # Head(b) THEN CharRank(Head(a)) < CharRank(Head(b))
    ELSE StrLT(Tail(a), Tail(b))

\* order of pathlib paths: part by part
PathLT(p, q) ==
    \/ StrLT(p[1], q[1])
    \/ p[1] = q[1] /\ StrLT(p[2], q[2])
    \/ p[1] = q[1] /\ p[2] = q[2] /\ StrLT(p[3], q[3])

\* sorted(...) of a set of paths
SortedPaths(S) ==
    CHOOSE s \in [1..Cardinality(S) -> S] :
        /\ \A i, j \in DOMAIN s : i < j => PathLT(s[i], s[j])

DirData == <<"d", "a", "t", "a">>
DirES01 == <<"E", "S", "_", "T", "2", "_", "2", "0", "2", "4", "0", "1">>
DirES03 == <<"E", "S", "_", "T", "2", "_", "2", "0", "2", "4", "0", "3">>
DirMisc == <<"m", "i", "s", "c">>

File0101 == <<DirData, DirES01, <<"2", "0", "2", "4", "0", "1", "0", "1", ".", "c", "s", "v">>>>
File0307 == <<DirData, DirES03, <<"2", "0", "2", "4", "0", "3", "0", "7", ".", "c", "s", "v">>>>
File0308 == <<DirData, DirES03, <<"2", "0", "2", "4", "0", "3", "0", "8", ".", "c", "s", "v">>>>
FileBadName == <<DirData, DirES03, <<"2", "0", "2", "4", "-", "0", "3", "-", "0", "9", ".", "c", "s", "v">>>>
FileNoSymbol == <<DirData, DirMisc, <<"2", "0", "2", "4", "0", "1", "0", "2", ".", "c", "s", "v">>>>

FileBadDate == <<DirData, DirES03, <<"2", "0", "2", "4", "0", "2", "3", "0", ".", "c", "s", "v">>>>
FileNotCsv == <<DirData, DirES01, <<"n", "o", "t", "e", "s", ".", "t", "x", "t">>>>

DayFiles == {File0101, File0307, File0308, FileBadName, FileBadDate, FileNoSymbol}

\* str.lower() of one character
LowerChar(c) == IF \E i \in 1..26 : Upper[i] = c
                THEN Lower[CHOOSE i \in 1..26 : Upper[i] = c] ELSE c

\* Path.suffix.lower(): the name from its last dot on, "" when the name has none or
\* only a leading one
SuffixLower(name) ==
    LET dots == {i \in 2..Len(name) : name[i] = "."} IN
    IF dots = {} THEN <<>>
    ELSE LET i == CHOOSE k \in dots : \A j \in dots : j <= k
         IN  [k \in 1..(Len(name) - i + 1) |-> LowerChar(name[i + k - 1])]

\* the glob pattern *.csv
GlobCsv(name) == Len(name) >= 4 /\ SubSeq(name, Len(name) - 3, Len(name)) = <<".", "c", "s", "v">>

\* What discover_csvs finds at the input root: a file (files holds it), a directory
\* (files holds the files the glob walks), or neither.
Root(kind, files) == [kind |-> kind, files |-> files]

Roots ==
    {Root("missing", {})}
    \cup {Root("file", {p}) : p \in {FileBadName, FileNotCsv}}
    \cup {Root("dir", S) : S \in {X \in SUBSET DayFiles : Cardinality(X) <= MaxFiles}}

RootKinds == {r.kind : r \in Roots}

\* variant: a root that does not exist is taken as a directory without files
discover_csvs_lenient(path_in) ==
    IF path_in.kind = "file"
    THEN LET p == CHOOSE x \in path_in.files : TRUE IN
         Ok(IF SuffixLower(p[3]) = <<".", "c", "s", "v">> THEN <<p>> ELSE <<>>)
    ELSE Ok(SortedPaths({p \in path_in.files : GlobCsv(p[3])}))

\* list(discover_csvs(path_in, recursive)): Ok(the paths in order), or [ok |-> FALSE]
\* where FileNotFoundError is raised
discover_csvs(path_in) ==
    IF path_in.kind = "file"
    THEN LET p == CHOOSE x \in path_in.files : TRUE IN
         Ok(IF SuffixLower(p[3]) = <<".", "c", "s", "v">> THEN <<p>> ELSE <<>>)
    ELSE IF path_in.kind = "dir"
    THEN Ok(SortedPaths({p \in path_in.files : GlobCsv(p[3])}))
    ELSE [ok |-> FALSE]

\* the run is started without --symbol
ForcedSymbols == {None}

TS1 == <<"2", "0", "2", "4", "0", "1", "0", "1", "0", "9", "3", "0", "0", "0", "1", "2", "3", "4", "5", "6">>
TS2 == <<"2", "0", "2", "4", "0", "1", "0", "1", "0", "9", "3", "0", "0", "0", "2", "2", "3", "4", "5", "6">>
TS3 == <<"2", "0", "2", "4", "0", "1", "0", "1", "0", "9", "3", "0", "0", "0", "3", "2", "3", "4", "5", "6">>

RowBid == <<TS1, <<"1">>, <<"0">>, <<"5", "0", "0", "0", ".", "0", "0">>, <<"1", "0">>>>
RowBidText == <<TS1, <<"1">>, <<"0">>, <<"x">>, <<"1", "0">>>>
RowAsk == <<TS2, <<"1">>, <<"1">>, <<"5", "0", "0", "0", ".", "2", "5">>, <<"7">>>>
RowAskNaN == <<TS2, <<"1">>, <<"1">>, <<"N", "a", "N">>, <<"7">>>>
RowTradeAtBid == <<TS3, <<"1">>, <<"2">>, <<"5", "0", "0", "0", ".", "0", "0">>, <<"3">>>>
RowTradeLow == <<TS3, <<"1">>, <<"2">>, <<"4", "9", "9", "9", ".", "0", "0">>, <<"3">>>>
RowTradeHigh == <<TS3, <<"1">>, <<"2">>, <<"5", "0", "0", "0", ".", "5", "0">>, <<"3">>>>
RowSixFields == <<TS3, <<"1">>, <<"2">>, <<"5", "0", "0", "0", ".", "2", "5">>, <<"3">>, <<"1">>>>
\* a quoted price field, which csv.reader yields with the line break it contains
RowTradeQuoted == <<TS3, <<"1">>, <<"2">>, <<"5", "0", "\n", "0", "0">>, <<"3">>>>
RowEmpty == <<>>

Rows == {RowBid, RowBidText, RowAsk, RowAskNaN, RowTradeAtBid, RowTradeLow,
         RowTradeHigh, RowTradeQuoted, RowSixFields, RowEmpty}

(***************************************************************************)
(* main(): the run                                                         *)
(***************************************************************************)
ZeroTot == [archivos |-> 0, lineas |-> 0, validas |-> 0, l1 |-> 0,
            trades_emitidos |-> 0, clamps |-> 0]

Init ==
    /\ pc = "main"
    /\ ruta_in \in RootKinds
    /\ csv_paths = <<>>
    /\ forced_symbol \in ForcedSymbols
    /\ handles = EmptyMap
    /\ state = EmptyMap
    /\ fds = <<>>
    /\ out = EmptyMap
    /\ cur = NoCur
    /\ tot = ZeroTot
    /\ closeCalls = 0
    /\ seen = {}
    /\ nread = 0
    /\ fnIn = <<>>
    /\ fnOut = <<>>

\* csv_paths = list(discover_csvs(...)): FileNotFoundError is caught nowhere and ends
\* main; then "if not csv_paths: return", else the with block is entered
Begin ==
    /\ pc = "main"
    /\ \E path_in \in {r \in Roots : r.kind = ruta_in} :
          LET found == discover_csvs(path_in) IN
          IF found.ok
          THEN /\ csv_paths' = found.val
               /\ pc' = IF found.val = <<>> THEN "done" ELSE "loop"
          ELSE /\ csv_paths' = csv_paths
               /\ pc' = "fatal"
    /\ UNCHANGED <<forced_symbol, ruta_in, handles, state, fds, out, cur, tot,
                   closeCalls, nread, seen, fnIn, fnOut>>

\* next iteration of the for loop, up to the point where the day-file is opened
StartFile ==
    /\ pc = "loop"
    /\ csv_paths # <<>>
    /\ LET csv_path == Head(csv_paths)
           symbol == infer_symbol_from_path(csv_path, forced_symbol)
           trading_day == infer_trade_date_from_filename(csv_path)
       IN  /\ csv_paths' = Tail(csv_paths)
           /\ tot' = [tot EXCEPT !.archivos = @ + 1]
           /\ IF symbol.ok /\ trading_day.ok
              THEN LET c == front_contract_for_date(trading_day.val)
                       ck == ContractKey(symbol.val, c[1], c[2])
                       w == get_writer(handles, fds, out, ck)
                   IN  /\ handles' = w.handles
                       /\ fds' = w.fds
                       /\ out' = w.out
                       /\ state' = get_state(state, ck)
                       /\ cur' = [NoCur EXCEPT !.ck = ck, !.fout = w.handles[ck]]
                       /\ seen' = seen \cup {<<ck, "acquire">>}
                       /\ pc' = "open"
              ELSE \* ValueError, caught by main's except clause
                   /\ pc' = "loop"
                   /\ UNCHANGED <<handles, fds, out, state, cur, seen>>
    /\ UNCHANGED <<forced_symbol, ruta_in, closeCalls, nread, fnIn, fnOut>>

\* csv_path.open succeeds
OpenOk ==
    /\ pc = "open"
    /\ pc' = "rows"
    /\ UNCHANGED <<csv_paths, forced_symbol, ruta_in, handles, state, fds, out, cur, tot,
                   closeCalls, nread, seen, fnIn, fnOut>>

\* variant: a day-file that cannot be opened takes its contract's handle, output file
\* and state with it
OpenFailReleases ==
    /\ pc = "open"
    /\ pc' = "loop"
    /\ cur' = NoCur
    /\ handles' = [k \in DOMAIN handles \ {cur.ck} |-> handles[k]]
    /\ state' = [k \in DOMAIN state \ {cur.ck} |-> state[k]]
    /\ fds' = [fds EXCEPT ![cur.fout].open = FALSE]
    /\ UNCHANGED <<csv_paths, forced_symbol, ruta_in, out, tot,
                   closeCalls, nread, seen, fnIn, fnOut>>

\* csv_path.open raises; main's except clause skips the file
OpenFail ==
    /\ pc = "open"
    /\ pc' = "loop"
    /\ cur' = NoCur
    /\ UNCHANGED <<csv_paths, forced_symbol, ruta_in, handles, state, fds, out, tot,
                   closeCalls, nread, seen, fnIn, fnOut>>

\* history only: the Level-1 BID or ASK event a row is, as {<<contract, event>>}
QuoteEvents(ck, campos) ==
    LET parsed == parse_line_fields(campos) IN
    IF parsed.ok /\ parsed.level = 1 /\ parsed.tipo = TYPE_BID THEN {<<ck, "bid">>}
    ELSE IF parsed.ok /\ parsed.level = 1 /\ parsed.tipo = TYPE_ASK THEN {<<ck, "ask">>}
    ELSE {}

\* variant: a record is written at the head of the output
ReadRowPrepends(campos) ==
    /\ pc = "rows"
    /\ nread < MaxRows
    /\ IF campos = <<>>
       THEN UNCHANGED <<pc, cur, state, fds, out, seen, nread>>
       ELSE LET e == ProcessRow(cur, state[cur.ck], campos)
                name == fds[cur.fout].name
            IN  /\ state' = [state EXCEPT ![cur.ck] = e.st]
                /\ out' = [out EXCEPT ![name] = e.written \o @]
                /\ fds' = IF e.written # <<>>
                          THEN [fds EXCEPT ![cur.fout].dirty = TRUE] ELSE fds
                /\ seen' = seen \cup QuoteEvents(cur.ck, campos)
                /\ nread' = nread + 1
                /\ IF e.exc
                   THEN pc' = "loop" /\ cur' = NoCur
                   ELSE pc' = pc /\ cur' = e.cur
    /\ UNCHANGED <<csv_paths, forced_symbol, ruta_in, handles, tot, closeCalls, fnIn, fnOut>>

\* variant: a write may be lost
ReadRowLossy(campos) ==
    /\ pc = "rows"
    /\ nread < MaxRows
    /\ IF campos = <<>>
       THEN UNCHANGED <<pc, cur, state, fds, out, seen, nread>>
       ELSE LET e == ProcessRow(cur, state[cur.ck], campos)
                name == fds[cur.fout].name
            IN  /\ state' = [state EXCEPT ![cur.ck] = e.st]
                /\ \E kept \in BOOLEAN :
                      out' = [out EXCEPT ![name] = IF kept THEN @ \o e.written ELSE @]
                /\ fds' = IF e.written # <<>>
                          THEN [fds EXCEPT ![cur.fout].dirty = TRUE] ELSE fds
                /\ seen' = seen \cup QuoteEvents(cur.ck, campos)
                /\ nread' = nread + 1
                /\ IF e.exc
                   THEN pc' = "loop" /\ cur' = NoCur
                   ELSE pc' = pc /\ cur' = e.cur
    /\ UNCHANGED <<csv_paths, forced_symbol, ruta_in, handles, tot, closeCalls, fnIn, fnOut>>

\* one line of the day-file; iter_csv_lineas drops a line with no fields
ReadRow(campos) ==
    /\ pc = "rows"
    /\ nread < MaxRows
    /\ IF campos = <<>>
       THEN UNCHANGED <<pc, cur, state, fds, out, seen, nread>>
       ELSE LET e == ProcessRow(cur, state[cur.ck], campos)
                name == fds[cur.fout].name
            IN  /\ state' = [state EXCEPT ![cur.ck] = e.st]
                /\ out' = [out EXCEPT ![name] = @ \o e.written]
                /\ fds' = IF e.written # <<>>
                          THEN [fds EXCEPT ![cur.fout].dirty = TRUE] ELSE fds
                /\ seen' = seen \cup QuoteEvents(cur.ck, campos)
                /\ nread' = nread + 1
                /\ IF e.exc
                   THEN pc' = "loop" /\ cur' = NoCur
                   ELSE pc' = pc /\ cur' = e.cur
    /\ UNCHANGED <<csv_paths, forced_symbol, ruta_in, handles, tot, closeCalls, fnIn, fnOut>>

\* variant: the counters of a file that fails are added to the totals
ReadFailKeepsCounters ==
    /\ pc = "rows"
    /\ pc' = "loop"
    /\ tot' = [tot EXCEPT !.lineas = @ + cur.total_lineas,
                          !.validas = @ + cur.lineas_validas,
                          !.l1 = @ + cur.l1_total,
                          !.trades_emitidos = @ + cur.l1_trades_emitidos,
                          !.clamps = @ + cur.clamps_aplicados]
    /\ cur' = NoCur
    /\ UNCHANGED <<csv_paths, forced_symbol, ruta_in, handles, state, fds, out,
                   closeCalls, nread, seen, fnIn, fnOut>>

\* variant: the records a failed file wrote are taken back
ReadFailRollsBack ==
    /\ pc = "rows"
    /\ pc' = "loop"
    /\ cur' = NoCur
    /\ out' = [out EXCEPT ![fds[cur.fout].name] =
                   SubSeq(@, 1, Len(@) - cur.l1_trades_emitidos)]
    /\ UNCHANGED <<csv_paths, forced_symbol, ruta_in, handles, state, fds, tot,
                   closeCalls, nread, seen, fnIn, fnOut>>

\* variant: the try statement encloses the whole for loop, so a failure ends the loop
ReadFailEndsLoop ==
    /\ pc = "rows"
    /\ pc' = "loop"
    /\ cur' = NoCur
    /\ csv_paths' = <<>>
    /\ UNCHANGED <<forced_symbol, ruta_in, handles, state, fds, out, tot,
                   closeCalls, nread, seen, fnIn, fnOut>>

\* reading the day-file raises (I/O or decoding error); main's except clause skips
\* the rest of the file and its counters are never added
ReadFail ==
    /\ pc = "rows"
    /\ pc' = "loop"
    /\ cur' = NoCur
    /\ UNCHANGED <<csv_paths, forced_symbol, ruta_in, handles, state, fds, out, tot,
                   closeCalls, nread, seen, fnIn, fnOut>>

\* variant: the contract's BBO state lasts for one file only
EndFileResetsState ==
    /\ pc = "rows"
    /\ pc' = "loop"
    /\ tot' = [tot EXCEPT !.lineas = @ + cur.total_lineas,
                          !.validas = @ + cur.lineas_validas,
                          !.l1 = @ + cur.l1_total,
                          !.trades_emitidos = @ + cur.l1_trades_emitidos,
                          !.clamps = @ + cur.clamps_aplicados]
    /\ state' = [state EXCEPT ![cur.ck] = NewState]
    /\ cur' = NoCur
    /\ UNCHANGED <<csv_paths, forced_symbol, ruta_in, handles, fds, out,
                   closeCalls, nread, seen, fnIn, fnOut>>

\* end of the day-file: the function returns its counters and main adds them
EndFile ==
    /\ pc = "rows"
    /\ pc' = "loop"
    /\ tot' = [tot EXCEPT !.lineas = @ + cur.total_lineas,
                          !.validas = @ + cur.lineas_validas,
                          !.l1 = @ + cur.l1_total,
                          !.trades_emitidos = @ + cur.l1_trades_emitidos,
                          !.clamps = @ + cur.clamps_aplicados]
    /\ cur' = NoCur
    /\ UNCHANGED <<csv_paths, forced_symbol, ruta_in, handles, state, fds, out,
                   closeCalls, nread, seen, fnIn, fnOut>>

\* ContractWriters.__exit__: close(), after which both maps are empty
Exit(flushFails) ==
    /\ fds' = close(handles, fds, flushFails)
    /\ handles' = EmptyMap
    /\ state' = EmptyMap
    /\ closeCalls' = closeCalls + 1

\* variant: the writers are not used as a context manager and are never closed
FinishWithoutClose ==
    /\ pc = "loop"
    /\ csv_paths = <<>>
    /\ pc' = "done"
    /\ UNCHANGED <<csv_paths, forced_symbol, ruta_in, handles, state, fds, out, cur, tot,
                   closeCalls, nread, seen, fnIn, fnOut>>

\* the for loop is exhausted and the with block is left normally
Finish ==
    /\ pc = "loop"
    /\ csv_paths = <<>>
    /\ \E flushFails \in SUBSET {handles[ck] : ck \in DOMAIN handles} : Exit(flushFails)
    /\ pc' = "done"
    /\ UNCHANGED <<csv_paths, forced_symbol, ruta_in, out, cur, tot, nread, seen, fnIn, fnOut>>

\* an exception that "except Exception" does not catch (KeyboardInterrupt) unwinds
\* the with block from inside the loop
Interrupt ==
    /\ pc \in {"loop", "open", "rows"}
    /\ \E flushFails \in SUBSET {handles[ck] : ck \in DOMAIN handles} : Exit(flushFails)
    /\ pc' = "aborted"
    /\ cur' = NoCur
    /\ UNCHANGED <<csv_paths, forced_symbol, ruta_in, out, tot, nread, seen, fnIn, fnOut>>

Next ==
    \/ Begin
    \/ StartFile
    \/ OpenOk
    \/ OpenFail
    \/ \E campos \in Rows : ReadRow(campos)
    \/ ReadFail
    \/ EndFile
    \/ Finish
    \/ Interrupt

Spec == Init /\ [][Next]_vars

(***************************************************************************)
(* The program run twice over the same day-files, each run starting with   *)
(* no state and an empty output directory.  fnIn holds the files and their *)
(* lines; no read fails and nothing interrupts either run.                 *)
(***************************************************************************)
TwiceRows == {RowBid, RowAsk, RowAskNaN, RowTradeLow, RowSixFields}

\* the lines of one day-file
DayRows == UNION {[1..n -> TwiceRows] : n \in 0..(MaxRows \div 2)}

TwicePaths ==
    {SortedPaths(S) : S \in {{File0101}, {File0101, File0307}, {File0307, File0308},
                             {FileBadName, File0308}}}

TwiceInputs ==
    UNION {{[paths |-> p, rows |-> rs] : rs \in [1..Len(p) -> DayRows]} : p \in TwicePaths}

InitTwice ==
    /\ pc = "main"
    /\ ruta_in = "dir"
    /\ csv_paths = <<>>
    /\ forced_symbol = None
    /\ handles = EmptyMap
    /\ state = EmptyMap
    /\ fds = <<>>
    /\ out = EmptyMap
    /\ cur = NoCur
    /\ tot = ZeroTot
    /\ closeCalls = 0
    /\ seen = {}
    /\ nread = 0
    /\ fnIn \in TwiceInputs
    /\ fnOut = [done |-> FALSE]

\* discovery finds the files of fnIn
TwiceBegin ==
    /\ Begin
    /\ csv_paths' = fnIn.paths

\* the next line of the current day-file
TwiceReadRow ==
    /\ pc = "rows"
    /\ cur.total_lineas < Len(fnIn.rows[tot.archivos])
    /\ ReadRow(fnIn.rows[tot.archivos][cur.total_lineas + 1])

\* the current day-file has no further line
TwiceEndFile ==
    /\ pc = "rows"
    /\ cur.total_lineas = Len(fnIn.rows[tot.archivos])
    /\ EndFile

\* the program is started again: what the first run wrote and counted is kept in
\* fnOut, and the second run starts like the first
Rerun ==
    /\ pc = "done"
    /\ ~fnOut.done
    /\ fnOut' = [done |-> TRUE, out |-> out, tot |-> tot]
    /\ pc' = "main"
    /\ csv_paths' = <<>>
    /\ handles' = EmptyMap
    /\ state' = EmptyMap
    /\ fds' = <<>>
    /\ out' = EmptyMap
    /\ cur' = NoCur
    /\ tot' = ZeroTot
    /\ closeCalls' = 0
    /\ seen' = {}
    /\ nread' = 0
    /\ UNCHANGED <<forced_symbol, ruta_in, fnIn>>

NextTwice ==
    \/ TwiceBegin
    \/ StartFile
    \/ OpenOk
    \/ TwiceReadRow
    \/ TwiceEndFile
    \/ Finish
    \/ Rerun

SpecTwice == InitTwice /\ [][NextTwice]_vars

(***************************************************************************)
(* The program run twice over the same day-files into the same output      *)
(* directory: the second run finds the files the first run wrote.          *)
(***************************************************************************)
\* the program is started again with the same --out: the new process has no handle
\* and no state, and the output files are as the first run left them
RerunSameDir ==
    /\ pc = "done"
    /\ ~fnOut.done
    /\ fnOut' = [done |-> TRUE, out |-> out, tot |-> tot]
    /\ pc' = "main"
    /\ csv_paths' = <<>>
    /\ handles' = EmptyMap
    /\ state' = EmptyMap
    /\ fds' = <<>>
    /\ cur' = NoCur
    /\ tot' = ZeroTot
    /\ closeCalls' = 0
    /\ seen' = {}
    /\ nread' = 0
    /\ UNCHANGED <<forced_symbol, ruta_in, fnIn, out>>

NextAppend ==
    \/ TwiceBegin
    \/ StartFile
    \/ OpenOk
    \/ TwiceReadRow
    \/ TwiceEndFile
    \/ Finish
    \/ RerunSameDir

SpecAppend == InitTwice /\ [][NextAppend]_vars

(***************************************************************************)
(* compare_csv.py: two files compared line by line.  A file is a record    *)
(* [exists, rows], rows being what csv.reader yields for its lines.        *)
(***************************************************************************)
\* float(text) for decimal literals without exponent: [ok, val], val in thousandths
FloatParse(text) ==
    LET s == Strip(text)
        body == IF s # <<>> /\ Head(s) \in {"+", "-"} THEN Tail(s) ELSE s
        dots == {i \in 1..Len(body) : body[i] = "."}
        p == IF dots = {} THEN Len(body) + 1 ELSE CHOOSE i \in dots : TRUE
        ip == SubSeq(body, 1, p - 1)
        fp == SubSeq(body, p + 1, Len(body))
        f3 == SubSeq(fp \o <<"0", "0", "0">>, 1, 3)
    IN  IF /\ Cardinality(dots) <= 1
           /\ Len(ip) + Len(fp) >= 1
           /\ \A i \in 1..Len(ip) : IsDigit(ip[i])
           /\ \A i \in 1..Len(fp) : IsDigit(fp[i])
        THEN LET mag == DigitsToNat(ip \o f3) IN
             [ok |-> TRUE, val |-> IF s # <<>> /\ Head(s) = "-" THEN 0 - mag ELSE mag]
        ELSE [ok |-> FALSE, val |-> 0]

is_float(value) == FloatParse(value).ok

Abs(x) == IF x < 0 THEN 0 - x ELSE x

\* whether the two fields count as equal
compare_fields(val_a, val_b, tolerance) ==
    LET a == Strip(val_a)
        b == Strip(val_b)
    IN  IF a = b THEN TRUE
        ELSE IF is_float(a) /\ is_float(b)
        THEN Abs(FloatParse(a).val - FloatParse(b).val) <= tolerance
        ELSE FALSE

IsBlankRow(row) == Len(row) = 1 /\ Strip(row[1]) = <<>>

Effective(row, skip_leading_cols) ==
    IF Len(row) > skip_leading_cols THEN SubSeq(row, skip_leading_cols + 1, Len(row))
    ELSE <<>>

Max(a, b) == IF a >= b THEN a ELSE b

\* the body of the loop for a line both files have: [compared, differences]
CompareRows(row_a0, row_b0, o) ==
    LET row_a == IF o.ignore_blank_lines /\ IsBlankRow(row_a0) THEN <<>> ELSE row_a0
        row_b == IF o.ignore_blank_lines /\ IsBlankRow(row_b0) THEN <<>> ELSE row_b0
    IN  IF o.ignore_blank_lines /\ row_a = <<>> /\ row_b = <<>>
        THEN [compared |-> 0, differences |-> 0]
        ELSE LET eff_a == Effective(row_a, o.skip_leading_cols)
                 eff_b == Effective(row_b, o.skip_leading_cols)
                 val(eff, i) == IF i <= Len(eff) THEN eff[i] ELSE <<>>
                 unequal == {i \in 1..Max(Len(eff_a), Len(eff_b)) :
                                ~compare_fields(val(eff_a, i), val(eff_b, i), o.tolerance)}
             IN  [compared |-> 1,
                  differences |-> (IF Len(eff_a) # Len(eff_b) THEN 1 ELSE 0)
                                      + Cardinality(unequal)]

\* line i: a row missing in one of the files is one difference
CompareAt(rows_a, rows_b, o, i) ==
    IF i > Len(rows_a) \/ i > Len(rows_b) THEN [compared |-> 0, differences |-> 1]
    ELSE CompareRows(rows_a[i], rows_b[i], o)

AddCounts(x, y) ==
    [compared |-> x.compared + y.compared, differences |-> x.differences + y.differences]

\* the loop over zip_longest of the two readers, from line i on
RECURSIVE CompareFrom(_, _, _, _)
CompareFrom(rows_a, rows_b, o, i) ==
    IF i > Max(Len(rows_a), Len(rows_b)) THEN [compared |-> 0, differences |-> 0]
    ELSE AddCounts(CompareAt(rows_a, rows_b, o, i), CompareFrom(rows_a, rows_b, o, i + 1))

\* [exc, total_lines_compared, total_differences, ret]: exc where open() raises
\* FileNotFoundError and nothing is returned
compare_csvs(file_a, file_b, o) ==
    IF ~file_a.exists \/ ~file_b.exists
    THEN [exc |-> TRUE, total_lines_compared |-> 0, total_differences |-> 0, ret |-> 0]
    ELSE LET r == CompareFrom(file_a.rows, file_b.rows, o, 1) IN
         [exc |-> FALSE, total_lines_compared |-> r.compared,
          total_differences |-> r.differences,
          ret |-> IF r.differences = 0 THEN 0 ELSE 1]

\* variant: a difference ends the process with status 1 whatever the flag
compare_main_strict(args) ==
    LET r == compare_csvs(args.file_a, args.file_b, args)
    IN  [r |-> r, status |-> IF r.exc THEN 1 ELSE IF r.ret # 0 THEN 1 ELSE 0]

\* main of compare_csv.py: what compare_csvs did and the exit status of the process;
\* an uncaught exception ends the process with a traceback and status 1
compare_main(args) ==
    LET r == compare_csvs(args.file_a, args.file_b, args)
    IN  [r |-> r,
         status |-> IF r.exc THEN 1
                    ELSE IF args.fail_on_diff /\ r.ret # 0 THEN 1 ELSE 0]

(***************************************************************************)
(* Pure functions applied to inputs drawn from bounded sets.               *)
(***************************************************************************)
PriceTexts ==
    {<<"5", "0", "0", "0", ".", "0", "0">>, <<"5", "0", "0", "0", ".", "0">>, <<"5", "0", "0", "0", ".", "2", "5">>, <<"5", "0", "0", "0", ".", "5", "0">>, <<"4", "9", "9", "9", ".", "0", "0">>, <<"-", "1">>, <<"x">>, <<>>,
     <<"N", "a", "N">>, <<"I", "n", "f", "i", "n", "i", "t", "y">>}

Dates ==
    {MkDate(y, m, d) : y \in MinYear..MaxYear, m \in 1..12, d \in 1..31}

\* first fields of a row: 20 digits, padded with whitespace, too short, too long, with
\* a letter, with a digit outside ASCII, with a superscript digit, with a blank inside,
\* empty
TimestampTexts ==
    {TS1, <<" ">> \o TS1 \o <<"\n">>, SubSeq(TS1, 1, 19), TS1 \o <<"0">>,
     [TS1 EXCEPT ![5] = "x"], [TS1 EXCEPT ![5] = ArabicThree],
     [TS1 EXCEPT ![5] = SuperTwo], [TS1 EXCEPT ![5] = " "], <<>>}

\* level and type fields
IntTexts ==
    {<<"0">>, <<"1">>, <<"2">>, <<" ", "1", " ">>, <<"+", "1">>, <<"-", "1">>, <<"1", ".", "0">>,
     <<"x">>, <<>>, <<ArabicThree>>, <<SuperTwo>>}

PriceFieldTexts == {<<"5", "0", "0", "0", ".", "0", "0">>, <<" ", "5", "0", "0", "0", ".", "0", "0", " ">>, <<>>}

ParseRows5 ==
    {<<ts, l, ty, p, <<"3">>>> :
        ts \in TimestampTexts, l \in IntTexts, ty \in IntTexts, p \in PriceFieldTexts}

ParseRows ==
    ParseRows5
    \cup {r \o <<<<"0">>, <<"1">>>> : r \in ParseRows5}
    \cup {SubSeq(RowSixFields, 1, n) : n \in 0..6}
    \cup {RowTradeLow \o <<<<"0">>, <<"1">>, <<"9">>>>}

FolderNames ==
    {DirData, DirES01,
     <<"N", "Q", "_", "T", "1", "_", "2", "0", "2", "4", "0", "1">>,
     <<"E", "S", "_", "T", "3", "_", "2", "0", "2", "4", "0", "1">>,
     <<"E", "S", "_", "T", "2", "_", "2", "0", "2", "4", "0">>,
     <<"E", "-", "S", "_", "T", "2", "_", "2", "0", "2", "4", "0", "1">>,
     <<"_", "T", "2", "_", "2", "0", "2", "4", "0", "1">>,
     <<"e", "s", "9", "_", "T", "1", "_", "2", "0", "9", "9", "1", "2">>,
     <<"E", "S", "_", "T", "2", "_", "2", "0", "2", "4", "0", "1", "x">>}

SymbolInputs ==
    {[csv_path |-> <<gp, par, File0101[3]>>, forced |-> fs] :
        gp \in FolderNames, par \in FolderNames,
        fs \in {None, <<>>, <<"N", "Q">>, <<"E", "S">>}}

\* the state of the contract when the loop starts: nothing known, bid and ask known,
\* all three known, a bid above the ask
RowStates ==
    {NewState,
     [last |-> None, bid |-> <<"5", "0", "0", "0", ".", "2", "5">>,
      ask |-> <<"4", "9", "9", "9", ".", "7", "5">>],
     [last |-> None, bid |-> <<"4", "9", "9", "9", ".", "7", "5">>,
      ask |-> <<"5", "0", "0", "0", ".", "2", "5">>],
     [last |-> <<"4", "9", "9", "9", ".", "7", "5">>,
      bid |-> <<"4", "9", "9", "9", ".", "7", "5">>,
      ask |-> <<"5", "0", "0", "0", ".", "2", "5">>]}

\* lines of a day-file as csv.reader yields them: an empty line, a line of one blank,
\* a line of six fields, lines with a short timestamp, a level and a type that are no
\* integers, and a bid, an ask and a trade
FileLines ==
    {RowEmpty, <<<<" ">>>>, RowSixFields,
     [RowTradeLow EXCEPT ![1] = SubSeq(TS3, 1, 19)],
     [RowTradeLow EXCEPT ![2] = <<"x">>],
     [RowTradeLow EXCEPT ![3] = <<"1", ".", "0">>],
     RowBid, RowAsk, RowTradeLow}

MaxLines == 3

FileTexts == UNION {[1..n -> FileLines] : n \in 0..MaxLines}

\* rows of the files compared: two columns, a line of one blank
CmpRows ==
    {<<<<"1">>, <<"2">>>>, <<<<"9">>, <<"2", ".", "0">>>>, <<<<"1">>, <<"2", ".", "5">>>>,
     <<<<" ">>>>}

MaxCmpLines == 2

CmpFiles ==
    {[exists |-> FALSE, rows |-> <<>>]}
    \cup {[exists |-> TRUE, rows |-> r] : r \in UNION {[1..n -> CmpRows] : n \in 0..MaxCmpLines}}

\* command lines of compare_csv.py; the tolerance is in thousandths
CmpArgs ==
    [file_a : CmpFiles, file_b : CmpFiles, fail_on_diff : BOOLEAN,
     ignore_blank_lines : BOOLEAN, skip_leading_cols : {0, 1}, tolerance : {0, 500}]

\* ContractWriters objects on which close() is called: no, one or two contracts with
\* their open handles, written to or not, and the handles whose flush raises
CloseKeys == <<ContractKey(<<"E", "S">>, 3, 2024), ContractKey(<<"E", "S">>, 6, 2024)>>

CloseInputs ==
    {[f |-> "close",
      handles |-> [k \in {CloseKeys[i] : i \in 1..n} |->
                      CHOOSE i \in 1..n : CloseKeys[i] = k],
      state |-> [k \in {CloseKeys[i] : i \in 1..n} |-> s],
      fds |-> [i \in 1..n |-> [name |-> outfile(CloseKeys[i]), open |-> TRUE,
                               dirty |-> i \in d]],
      flushFails |-> ff] :
        n \in 0..Len(CloseKeys), s \in RowStates, d \in SUBSET (1..Len(CloseKeys)),
        ff \in SUBSET (1..Len(CloseKeys))}

PureInputs ==
    {[f |-> "clamp_bbo_with_last", last_str |-> a[1], bid_str |-> a[2], ask_str |-> a[3]] :
        a \in PriceTexts \X PriceTexts \X PriceTexts}
    \cup {[f |-> "front_contract_for_date", d |-> d] :
             d \in {x \in Dates : ValidDate(x.year, x.month, x.day)}}
    \cup {[f |-> "parse_line_fields", campos |-> r] : r \in ParseRows}
    \cup {[f |-> "infer_symbol_from_path", csv_path |-> a.csv_path, forced |-> a.forced] :
             a \in SymbolInputs}
    \cup {[f |-> "export_rows", st |-> s, lineas |-> <<r>>] : s \in RowStates, r \in ParseRows}
    \cup {[f |-> "export_rows", st |-> NewState, lineas |-> l] : l \in FileTexts}
    \cup {[f |-> "compare_csv", args |-> a] : a \in CmpArgs}
    \cup {x \in CloseInputs : x.flushFails \subseteq DOMAIN x.fds}

InitPure ==
    /\ pc = "call"
    /\ fnIn \in PureInputs
    /\ fnOut = <<>>
    /\ csv_paths = <<>>
    /\ forced_symbol = None
    /\ ruta_in = "missing"
    /\ handles = IF fnIn.f = "close" THEN fnIn.handles ELSE EmptyMap
    /\ state = IF fnIn.f = "close" THEN fnIn.state ELSE EmptyMap
    /\ fds = IF fnIn.f = "close" THEN fnIn.fds ELSE <<>>
    /\ out = EmptyMap
    /\ cur = NoCur
    /\ tot = ZeroTot
    /\ closeCalls = 0
    /\ nread = 0
    /\ seen = {}

ApplyClamp ==
    /\ pc = "call"
    /\ fnIn.f = "clamp_bbo_with_last"
    /\ fnOut' = clamp_bbo_with_last(fnIn.last_str, fnIn.bid_str, fnIn.ask_str)
    /\ pc' = "returned"
    /\ UNCHANGED <<csv_paths, forced_symbol, ruta_in, handles, state, fds, out, cur, tot,
                   closeCalls, nread, seen, fnIn>>

ApplyFrontContract ==
    /\ pc = "call"
    /\ fnIn.f = "front_contract_for_date"
    /\ fnOut' = front_contract_for_date(fnIn.d)
    /\ pc' = "returned"
    /\ UNCHANGED <<csv_paths, forced_symbol, ruta_in, handles, state, fds, out, cur, tot,
                   closeCalls, nread, seen, fnIn>>

ApplyParse ==
    /\ pc = "call"
    /\ fnIn.f = "parse_line_fields"
    /\ fnOut' = parse_line_fields(fnIn.campos)
    /\ pc' = "returned"
    /\ UNCHANGED <<csv_paths, forced_symbol, ruta_in, handles, state, fds, out, cur, tot,
                   closeCalls, nread, seen, fnIn>>

ApplyInferSymbol ==
    /\ pc = "call"
    /\ fnIn.f = "infer_symbol_from_path"
    /\ fnOut' = infer_symbol_from_path(fnIn.csv_path, fnIn.forced)
    /\ pc' = "returned"
    /\ UNCHANGED <<csv_paths, forced_symbol, ruta_in, handles, state, fds, out, cur, tot,
                   closeCalls, nread, seen, fnIn>>

\* the loop of the export function over the lines of one day-file
ApplyExportRows ==
    /\ pc = "call"
    /\ fnIn.f = "export_rows"
    /\ fnOut' = ExportRows(NoCur, fnIn.st, iter_csv_lineas(fnIn.lineas))
    /\ pc' = "returned"
    /\ UNCHANGED <<csv_paths, forced_symbol, ruta_in, handles, state, fds, out, cur, tot,
                   closeCalls, nread, seen, fnIn>>

\* a run of compare_csv.py
ApplyCompare ==
    /\ pc = "call"
    /\ fnIn.f = "compare_csv"
    /\ fnOut' = compare_main(fnIn.args)
    /\ pc' = "returned"
    /\ UNCHANGED <<csv_paths, forced_symbol, ruta_in, handles, state, fds, out, cur, tot,
                   closeCalls, nread, seen, fnIn>>

\* ContractWriters.close() on the object of fnIn
ApplyClose ==
    /\ pc = "call"
    /\ fnIn.f = "close"
    /\ Exit(fnIn.flushFails)
    /\ fnOut' = None
    /\ pc' = "returned"
    /\ UNCHANGED <<csv_paths, forced_symbol, ruta_in, out, cur, tot, nread, seen, fnIn>>

NextPure ==
    \/ ApplyClamp
    \/ ApplyFrontContract
    \/ ApplyParse
    \/ ApplyInferSymbol
    \/ ApplyExportRows
    \/ ApplyCompare
    \/ ApplyClose

SpecPure == InitPure /\ [][NextPure]_vars

(***************************************************************************)
(* Properties.                                                             *)
(***************************************************************************)
RECURSIVE SplitOn(_, _)
SplitOn(s, sep) ==
    LET at == {i \in 1..Len(s) : s[i] = sep} IN
    IF at = {} THEN <<s>>
    ELSE LET i == CHOOSE k \in at : \A j \in at : k <= j
         IN  <<SubSeq(s, 1, i - 1)>> \o SplitOn(SubSeq(s, i + 1, Len(s)), sep)

\* the fields of a written line: timestamp, price, bid, ask, volume
Fields(line) == SplitOn(SubSeq(line, 1, Len(line) - 1), ";")

\* every line written so far, as <<file name, position>>
Written == UNION {{<<n, i>> : i \in 1..Len(out[n])} : n \in DOMAIN out}

Parses(text) == Decimal(text).kind # "invalid"

DecLE(a, b) == DecCompare(Decimal(a), Decimal(b)) \in {"lt", "eq"}

DecGT(a, b) == DecCompare(Decimal(a), Decimal(b)) = "gt"

DecLT(a, b) == DecCompare(Decimal(a), Decimal(b)) = "lt"

Ordered(line) ==
    LET f == Fields(line) IN
    /\ Parses(f[2]) /\ Parses(f[3]) /\ Parses(f[4])
    /\ DecLE(f[3], f[2])
    /\ DecLE(f[2], f[4])

IsTradeRow(campos) ==
    LET parsed == parse_line_fields(campos) IN
    parsed.ok /\ parsed.level = 1 /\ parsed.tipo = TYPE_LAST

TradeRows == {campos \in Rows : IsTradeRow(campos)}

Running == pc \in {"main", "loop", "open", "rows"}

Ended == pc \in {"done", "aborted"}

\* C1 as stated: every record written satisfies bid_out <= price <= ask_out when the
\* three emitted texts are compared as decimals.
C1_EveryRecordOrdered ==
    \A w \in Written : Ordered(out[w[1]][w[2]])

\* C1, amended: every record written whose three emitted texts (price, bid, ask) all
\* parse as decimals satisfies bid_out <= price <= ask_out.
C1_ParsableRecordOrdered ==
    \A w \in Written :
        LET f == Fields(out[w[1]][w[2]]) IN
        (Parses(f[2]) /\ Parses(f[3]) /\ Parses(f[4]))
            => (DecLE(f[3], f[2]) /\ DecLE(f[2], f[4]))

\* a record was written with its bid or ask clamped to the trade price
C1_Witness ==
    /\ pc = "rows"
    /\ cur.clamps_aplicados >= 1
    /\ \E w \in Written :
          LET f == Fields(out[w[1]][w[2]]) IN
          Parses(f[2]) /\ Parses(f[3]) /\ Parses(f[4]) /\ (f[3] = f[2] \/ f[4] = f[2])

\* C2: a record is written to a contract's output only after a BID row and an ASK row
\* of that contract were handled earlier in the run, and a TRADE row that arrives while
\* the contract's bid or ask is unset writes nothing and only sets last.
C2_NoRecordBeforeBidAndAsk ==
    [][ /\ \A n \in DOMAIN out' :
              (IF n \in DOMAIN out THEN out'[n] # out[n] ELSE out'[n] # <<>>)
                  => /\ n = outfile(cur.ck)
                     /\ <<cur.ck, "bid">> \in seen
                     /\ <<cur.ck, "ask">> \in seen
        /\ \A campos \in TradeRows :
              (/\ pc = "rows"
               /\ nread' = nread + 1
               /\ state[cur.ck].bid = None \/ state[cur.ck].ask = None
               /\ ReadRow(campos))
                  => /\ out' = out
                     /\ state' = [state EXCEPT
                                    ![cur.ck].last = parse_line_fields(campos).price_str]
      ]_vars

\* a TRADE row has been handled for a contract with no ASK yet: nothing is written
C2_Witness ==
    /\ pc = "rows"
    /\ state[cur.ck].last # None
    /\ state[cur.ck].bid # None
    /\ state[cur.ck].ask = None
    /\ out[outfile(cur.ck)] = <<>>

\* C3 as stated: for decimal-parsable (price, last_bid, last_ask) the function returns
\* bid_out = price with clamp_bid set exactly when last_bid > price, else bid_out =
\* last_bid with the flag clear, and symmetrically for the ask with last_ask < price.
C3_ClampReturnsForParsable ==
    (/\ pc = "returned"
     /\ fnIn.f = "clamp_bbo_with_last"
     /\ Parses(fnIn.last_str) /\ Parses(fnIn.bid_str) /\ Parses(fnIn.ask_str))
        => /\ ~fnOut.exc
           /\ fnOut.clamp_bid = DecGT(fnIn.bid_str, fnIn.last_str)
           /\ fnOut.bid_out = (IF DecGT(fnIn.bid_str, fnIn.last_str)
                               THEN fnIn.last_str ELSE fnIn.bid_str)
           /\ fnOut.clamp_ask = DecLT(fnIn.ask_str, fnIn.last_str)
           /\ fnOut.ask_out = (IF DecLT(fnIn.ask_str, fnIn.last_str)
                               THEN fnIn.last_str ELSE fnIn.ask_str)

\* C4: a TRADE row that arrives with bid and ask both set, where the trade price, the
\* bid or the ask does not parse as a decimal, writes one record carrying the stored
\* bid and ask unchanged, counts no clamp, and the file's processing continues.
C4_UnparsableEmitsUnclamped ==
    [][ \A campos \in TradeRows :
          (/\ pc = "rows"
           /\ nread' = nread + 1
           /\ BothKnown(state[cur.ck])
           /\ \/ ~Parses(parse_line_fields(campos).price_str)
              \/ ~Parses(state[cur.ck].bid)
              \/ ~Parses(state[cur.ck].ask)
           /\ ReadRow(campos))
              => LET parsed == parse_line_fields(campos)
                     parts == ts20_to_nt_parts(parsed.ts20)
                     n == outfile(cur.ck)
                 IN  /\ out'[n] = Append(out[n],
                            FormatLine(parts[1], parts[2], parts[3], parsed.price_str,
                                       state[cur.ck].bid, state[cur.ck].ask,
                                       parsed.volume_str))
                     /\ cur'.clamps_aplicados = cur.clamps_aplicados
                     /\ cur'.l1_trades_emitidos = cur.l1_trades_emitidos + 1
                     /\ pc' = "rows"
      ]_vars

\* a record carrying a bid that is no decimal was written, no clamp was counted and
\* the file is still being read
C4_Witness ==
    /\ pc = "rows"
    /\ cur.l1_trades_emitidos >= 1
    /\ cur.clamps_aplicados = 0
    /\ \E w \in Written : ~Parses(Fields(out[w[1]][w[2]])[3])

\* C5: BBO state is kept per contract across the files of a run: starting a file
\* whose contract was seen before leaves every state dict as the earlier files left
\* it, and a contract seen for the first time gets a dict with all fields unset.
C5_StateKeptAcrossFiles ==
    [][ /\ (pc = "loop" /\ pc' = "open") =>
              /\ \A k \in DOMAIN state : k \in DOMAIN state' /\ state'[k] = state[k]
              /\ DOMAIN state' = DOMAIN state \cup {cur'.ck}
              /\ cur'.ck \notin DOMAIN state => state'[cur'.ck] = NewState
        /\ (pc \in {"open", "rows"} /\ pc' = "loop" /\ nread' = nread) => state' = state
      ]_vars

\* the first row of the second file is a TRADE and it is emitted: the bid and ask it
\* used were observed in the first file
C5_Witness ==
    /\ pc = "rows"
    /\ tot.archivos = 2
    /\ cur.total_lineas = 1
    /\ cur.l1_trades_emitidos = 1

(***************************************************************************)
(* Calendar properties: the second Friday, found from the day of the week  *)
(* by Zeller's congruence (0 = Saturday ... 6 = Friday).                   *)
(***************************************************************************)
ZellerDay(y, m, d) ==
    LET mm == IF m < 3 THEN m + 12 ELSE m
        yy == IF m < 3 THEN y - 1 ELSE y
        k == yy % 100
        j == yy \div 100
    IN  (d + ((13 * (mm + 1)) \div 5) + k + (k \div 4) + (j \div 4) + 5 * j) % 7

IsFriday(y, m, d) == ZellerDay(y, m, d) = 6

\* the Friday of the month with exactly one Friday of the month before it
SecondFridayOf(y, m) ==
    MkDate(y, m, CHOOSE d \in 1..DaysInMonth(y, m) :
                    /\ IsFriday(y, m, d)
                    /\ Cardinality({e \in 1..(d - 1) : IsFriday(y, m, e)}) = 1)

RollMonths == {3, 6, 9, 12}

NextInCycle(m, y) == IF m = 12 THEN <<3, y + 1>> ELSE <<m + 3, y>>

FrontReturned == pc = "returned" /\ fnIn.f = "front_contract_for_date"

\* C6: for every roll month m the roll date is the second Friday of m (the first
\* Friday on or after the 1st plus seven days); a trading date on the roll date maps
\* to the next contract of the cycle and the day before it maps to contract m of
\* that year.
C6_RollBoundary ==
    FrontReturned =>
        \A m \in RollMonths :
            LET y == fnIn.d.year
                roll == SecondFridayOf(y, m)
            IN  /\ second_friday(y, m) = roll
                /\ roll.day \in 8..14
                /\ fnIn.d = roll => fnOut = NextInCycle(m, y)
                /\ fnIn.d = MkDate(y, m, roll.day - 1) => fnOut = <<m, y>>

\* the function was applied to a roll date
C6_Witness ==
    /\ FrontReturned
    /\ \E m \in RollMonths : fnIn.d = SecondFridayOf(fnIn.d.year, m)
    /\ fnOut = NextInCycle(fnIn.d.month, fnIn.d.year)

\* C7: front_contract_for_date returns a month in {3, 6, 9, 12} for every valid date;
\* on or after the December roll of year y it returns (3, y + 1), and for every other
\* date of year y a contract of year y.
C7_TotalAndCyclic ==
    FrontReturned =>
        LET y == fnIn.d.year
            decRoll == SecondFridayOf(y, 12)
        IN  /\ fnOut[1] \in RollMonths
            /\ IF DateLT(fnIn.d, decRoll) THEN fnOut[2] = y ELSE fnOut = <<3, y + 1>>

\* the function was applied to a date after the December roll
C7_Witness ==
    /\ FrontReturned
    /\ fnIn.d.month = 12 /\ fnIn.d.day = 31
    /\ fnOut = <<3, fnIn.d.year + 1>>

(***************************************************************************)
(* Resource lifecycle properties.                                          *)
(***************************************************************************)
OpenIds == {i \in DOMAIN fds : fds[i].open}

Acquired == {e[1] : e \in {x \in seen : x[2] = "acquire"}}

\* C8: while the run is in progress there is exactly one open handle per contract
\* identity acquired so far: the file is opened on the first acquisition only and the
\* memoized handle is returned afterwards.
C8_OneOpenHandlePerIdentity ==
    Running =>
        /\ DOMAIN handles = Acquired
        /\ Len(fds) = Cardinality(Acquired)
        /\ Cardinality(OpenIds) = Cardinality(Acquired)
        /\ \A ck \in Acquired :
              /\ handles[ck] \in OpenIds
              /\ fds[handles[ck]].name = outfile(ck)
              /\ Cardinality({i \in OpenIds : fds[i].name = outfile(ck)}) = 1
        /\ pc \in {"open", "rows"} => cur.fout = handles[cur.ck]

\* the second file of the run acquired the identity of the first: one file object
C8_Witness ==
    /\ pc = "open"
    /\ tot.archivos = 2
    /\ Len(fds) = 1
    /\ Cardinality(Acquired) = 1

\* C9 as stated: when the run has ended, every handle opened during the run has been
\* flushed and closed and none remains open, on every exit path.
C9_AllReleasedAtEnd ==
    Ended => \A i \in DOMAIN fds : ~fds[i].open /\ ~fds[i].dirty

\* C10 as stated: close is executed exactly once per run, after the last file has
\* been attempted.
C10_CloseExactlyOnceAfterLastFile ==
    /\ Ended => closeCalls = 1
    /\ closeCalls >= 1 => csv_paths = <<>>

\* C10, amended: close is executed at most once, and only when the with block is
\* left.  A run over a non-empty sequence that no uncaught error interrupts executes it
\* exactly once, after every file has been attempted, whichever files failed; a run that
\* an uncaught error interrupts executes it exactly once, at that point; a run over an
\* empty sequence returns before the with block and never executes it.
C10_CloseOncePerEnteredRun ==
    /\ closeCalls <= 1
    /\ Running => closeCalls = 0
    /\ pc = "done" =>
          /\ csv_paths = <<>>
          /\ closeCalls = (IF tot.archivos = 0 THEN 0 ELSE 1)
    /\ pc = "aborted" => closeCalls = 1

\* the run ended normally after a file failed partway through reading
C10_Witness ==
    /\ pc = "done"
    /\ closeCalls = 1
    /\ nread > tot.lineas
    /\ tot.archivos = 2

(***************************************************************************)
(* Failure handling of the driver.                                         *)
(***************************************************************************)
\* C11: a failure while processing a file (symbol or date inference, open, read) is
\* caught by the driver: the step that fails returns to the loop with the remaining
\* files untouched and nothing closed; each iteration removes exactly the head of the
\* sequence and counts one attempt; the run ends normally only with no file left.
C11_FailureSkipsToNextFile ==
    [][ /\ pc # "main" =>
              Len(csv_paths') + tot'.archivos = Len(csv_paths) + tot.archivos
        /\ (pc = "loop" /\ csv_paths # <<>> /\ pc' # "aborted") =>
              /\ csv_paths' = Tail(csv_paths)
              /\ pc' \in {"loop", "open"}
              /\ closeCalls' = closeCalls
        /\ (pc \in {"open", "rows"} /\ pc' = "loop") =>
              /\ csv_paths' = csv_paths
              /\ closeCalls' = closeCalls
              /\ handles' = handles
        /\ pc' = "done" => csv_paths' = <<>>
      ]_vars

\* the first file failed after a line of it was read, and the second file is open
C11_Witness ==
    /\ pc = "rows"
    /\ tot.archivos = 2
    /\ nread >= 1
    /\ tot.lineas = 0
    /\ cur.total_lineas = 0

\* a base name of 8 ASCII digits that are a calendar date, followed by .csv
IsDayFileName(name) ==
    /\ Len(name) = 12
    /\ \A i \in 1..8 : IsDigit(name[i])
    /\ <<name[9], name[10], name[11], name[12]>> = <<".", "c", "s", "v">>
    /\ LET m == DigitsToNat(<<name[5], name[6]>>)
           d == DigitsToNat(<<name[7], name[8]>>)
           y == DigitsToNat(<<name[1], name[2], name[3], name[4]>>)
       IN  y >= 1 /\ m \in 1..12 /\ d >= 1 /\ d <= DaysInMonth(y, m)

\* C12: a file whose base name is not YYYYMMDD.csv with a valid calendar date is
\* skipped: the iteration acquires no handle, creates or changes no BBO state, writes
\* nothing, and leaves the run exactly where it would be had the file not been in the
\* sequence (only the count of attempted files differs).
C12_BadNameFileSkipped ==
    [][ (/\ pc = "loop"
         /\ csv_paths # <<>>
         /\ ~IsDayFileName(Head(csv_paths)[3])
         /\ pc' # "aborted")
            => /\ pc' = "loop"
               /\ csv_paths' = Tail(csv_paths)
               /\ tot' = [tot EXCEPT !.archivos = @ + 1]
               /\ UNCHANGED <<handles, state, fds, out, cur, seen, closeCalls, nread>>
      ]_vars

\* the file after a skipped one is being processed and has emitted a record, the only
\* identity acquired in the run being its own
C12_Witness ==
    /\ pc = "rows"
    /\ tot.archivos = 2
    /\ cur.ck.month = 6
    /\ Acquired = {cur.ck}
    /\ cur.l1_trades_emitidos >= 1

(***************************************************************************)
(* Line-level properties.                                                  *)
(***************************************************************************)
\* the rows the parser is to accept: 5 or 7 fields, a trimmed timestamp of 20 ASCII
\* digits, level and type that read as integers
WellFormedRow(campos) ==
    /\ Len(campos) \in {5, 7}
    /\ LET ts == Strip(campos[1]) IN Len(ts) = 20 /\ \A i \in 1..20 : IsDigit(ts[i])
    /\ IntParse(campos[2]).ok
    /\ IntParse(campos[3]).ok

RejectedRows == {campos \in Rows : campos # <<>> /\ ~WellFormedRow(campos)}

\* C13: a row the parser rejects leaves the contract's BBO state, the output and the
\* lines-valid, Level-1, trades-emitted and clamp counters unchanged; only the
\* lines-total counter grows by one and the file's processing continues from the
\* state it was in.
C13_RejectedRowOnlyCounted ==
    [][ \A campos \in RejectedRows :
          (/\ pc = "rows"
           /\ nread' = nread + 1
           /\ ReadRow(campos))
              => /\ state' = state
                 /\ out' = out
                 /\ fds' = fds
                 /\ pc' = "rows"
                 /\ cur' = [cur EXCEPT !.total_lineas = @ + 1]
      ]_vars

\* a file in which four lines were read, one of them rejected, and the trade among
\* the other three was emitted
C13_Witness ==
    /\ pc = "rows"
    /\ cur.total_lineas = 4
    /\ cur.lineas_validas = 3
    /\ cur.l1_trades_emitidos = 1

\* C14 as stated: parse_line_fields returns a decoded record exactly for the rows of 5
\* or 7 fields whose trimmed first field is 20 ASCII digits and whose second and third
\* fields read as integers, the record holding the trimmed timestamp, the two
\* integers and the trimmed price and volume; for every other row it returns None.
C14_DecodesIffWellFormed ==
    (pc = "returned" /\ fnIn.f = "parse_line_fields") =>
        LET campos == fnIn.campos IN
        IF WellFormedRow(campos)
        THEN fnOut = [ok |-> TRUE, ts20 |-> Strip(campos[1]),
                      level |-> IntParse(campos[2]).val,
                      tipo |-> IntParse(campos[3]).val,
                      price_str |-> Strip(campos[4]), volume_str |-> Strip(campos[5])]
        ELSE fnOut = ParsedNone

(***************************************************************************)
(* Symbol inference.                                                       *)
(***************************************************************************)
\* name is sym followed by _T1_ or _T2_ and six digits, sym non-empty and alphanumeric
IsFolderOf(name, sym) ==
    /\ sym # <<>>
    /\ \A i \in 1..Len(sym) : IsAlnum(sym[i])
    /\ Len(name) = Len(sym) + 10
    /\ \A i \in 1..Len(sym) : name[i] = sym[i]
    /\ \E tier \in {"1", "2"} :
          \A i \in 1..4 : name[Len(sym) + i] = <<"_", "T", tier, "_">>[i]
    /\ \A i \in 5..10 : IsDigit(name[Len(sym) + i])

\* the symbols a directory name supplies: none or one
FolderSymbols(name) ==
    {sym \in {SubSeq(name, 1, k) : k \in 1..Len(name)} : IsFolderOf(name, sym)}

SymbolReturned == pc = "returned" /\ fnIn.f = "infer_symbol_from_path"

\* C16: infer_symbol_from_path returns the forced symbol whenever one is supplied (a
\* non-empty text), whatever the directory names; otherwise the symbol of the parent
\* directory name if it matches SYMBOL_T{1|2}_YYYYMM, else that of the grandparent
\* directory name if it matches, else it raises.
C16_ForcedThenParentThenGrandparent ==
    SymbolReturned =>
        LET parent == FolderSymbols(fnIn.csv_path[2])
            grandparent == FolderSymbols(fnIn.csv_path[1])
        IN  IF fnIn.forced \notin {None, <<>>} THEN fnOut = Ok(fnIn.forced)
            ELSE IF parent # {} THEN fnOut.ok /\ fnOut.val \in parent
            ELSE IF grandparent # {} THEN fnOut.ok /\ fnOut.val \in grandparent
            ELSE fnOut = ValueError

\* no symbol is forced, parent and grandparent both match with different symbols, and
\* the parent's symbol is returned
C16_Witness ==
    /\ SymbolReturned
    /\ fnIn.forced = None
    /\ FolderSymbols(fnIn.csv_path[2]) = {<<"N", "Q">>}
    /\ FolderSymbols(fnIn.csv_path[1]) = {<<"E", "S">>}
    /\ fnOut = Ok(<<"N", "Q">>)

IsRecordOf(line, campos) ==
    /\ line # <<>>
    /\ {i \in 1..Len(line) : line[i] = "\n"} = {Len(line)}
    /\ LET f == Fields(line) IN
       /\ Len(f) = 5
       /\ Len(f[1]) = 23
       /\ f[1][9] = " "
       /\ f[1][16] = " "
       /\ SubSeq(f[1], 1, 8) \o SubSeq(f[1], 10, 15) \o SubSeq(f[1], 17, 22)
              = Strip(campos[1])
       /\ f[1][23] = "0"
       /\ f[2] = Strip(campos[4])
       /\ f[5] = Strip(campos[5])

\* C17 as stated: every emitted record is exactly one newline-terminated line
\* 'date time frac7;price;bid_out;ask_out;volume' built from the trade row's timestamp,
\* trimmed price and trimmed volume, and a row emits at most one record, a row that
\* is no TRADE none.
C17_RecordIsOneFormattedLine ==
    [][ \A campos \in Rows \ {<<>>} :
          (/\ pc = "rows"
           /\ nread' = nread + 1
           /\ ReadRow(campos))
              => \/ out' = out
                 \/ /\ campos \in TradeRows
                    /\ LET n == outfile(cur.ck) IN
                       /\ Len(out'[n]) = Len(out[n]) + 1
                       /\ out' = [out EXCEPT ![n] = Append(out[n], out'[n][Len(out'[n])])]
                       /\ IsRecordOf(out'[n][Len(out'[n])], campos)
      ]_vars

(***************************************************************************)
(* The input root.                                                         *)
(***************************************************************************)
\* C18: if the input root is neither a file nor a directory the run ends with the
\* uncaught FileNotFoundError of discovery and does nothing else: no day-file is
\* attempted, no handle is opened, no BBO state is created, no record is written and
\* the resource manager is never entered.
C18_MissingRootIsFatal ==
    ruta_in = "missing" =>
        /\ pc \in {"main", "fatal"}
        /\ csv_paths = <<>>
        /\ fds = <<>>
        /\ handles = EmptyMap
        /\ state = EmptyMap
        /\ out = EmptyMap
        /\ tot = ZeroTot
        /\ closeCalls = 0

\* discovery has raised
C18_Witness ==
    /\ ruta_in = "missing"
    /\ pc = "fatal"

(***************************************************************************)
(* Frame of the BBO events.                                                *)
(***************************************************************************)
\* the Level-1 rows of a type among the rows of the run
Level1Rows(tipo) ==
    {campos \in Rows : /\ campos # <<>>
                       /\ WellFormedRow(campos)
                       /\ IntParse(campos[2]).val = 1
                       /\ IntParse(campos[3]).val = tipo}

BidRows == Level1Rows(TYPE_BID)

AskRows == Level1Rows(TYPE_ASK)

LastRows == Level1Rows(TYPE_LAST)

\* C19: a valid Level-1 BID row sets the bid of its contract to the row's price and
\* leaves ask, last, every other contract's state and the output unchanged; an ASK row
\* does the same for the ask.  Neither writes a record.
C19_QuoteRowSetsItsSideOnly ==
    [][ /\ \A campos \in BidRows :
              (pc = "rows" /\ nread' = nread + 1 /\ ReadRow(campos))
                  => /\ state' = [state EXCEPT ![cur.ck].bid = Strip(campos[4])]
                     /\ out' = out
                     /\ cur'.l1_trades_emitidos = cur.l1_trades_emitidos
        /\ \A campos \in AskRows :
              (pc = "rows" /\ nread' = nread + 1 /\ ReadRow(campos))
                  => /\ state' = [state EXCEPT ![cur.ck].ask = Strip(campos[4])]
                     /\ out' = out
                     /\ cur'.l1_trades_emitidos = cur.l1_trades_emitidos
      ]_vars

\* a BID row was handled after a TRADE: last is still set, the ask is unset and nothing
\* was written
C19_Witness ==
    /\ pc = "rows"
    /\ cur.l1_total = 2
    /\ state[cur.ck].last # None
    /\ state[cur.ck].bid # None
    /\ state[cur.ck].ask = None
    /\ out[outfile(cur.ck)] = <<>>
    /\ cur.l1_trades_emitidos = 0

\* C20: a TRADE row sets last to its price and changes neither bid nor ask, also when
\* the emitted bid or ask was clamped: the record carries the result of clamping the
\* stored bid and ask, which stay as they were for the next TRADE.
C20_TradeSetsLastOnly ==
    [][ \A campos \in LastRows :
          (pc = "rows" /\ nread' = nread + 1 /\ ReadRow(campos))
              => /\ state' = [state EXCEPT ![cur.ck].last = Strip(campos[4])]
                 /\ out' # out =>
                       LET n == outfile(cur.ck)
                           f == Fields(out'[n][Len(out'[n])])
                           r == clamp_bbo_with_last(Strip(campos[4]), state[cur.ck].bid,
                                                    state[cur.ck].ask)
                       IN  f[Len(f) - 2] = r.bid_out /\ f[Len(f) - 1] = r.ask_out
      ]_vars

\* two trades below the bid were emitted, each with its own price as the bid, and the
\* stored bid is still the quote
C20_Witness ==
    /\ pc = "rows"
    /\ cur.clamps_aplicados = 2
    /\ state[cur.ck].bid = RowBid[4]
    /\ state[cur.ck].last = RowTradeLow[4]
    /\ LET o == out[outfile(cur.ck)] IN
       /\ Len(o) = 2
       /\ Fields(o[1])[3] = RowTradeLow[4]
       /\ Fields(o[2])[3] = RowTradeLow[4]

(***************************************************************************)
(* BBO state and output over the run.                                      *)
(***************************************************************************)
\* C21: within a run the BBO state of a contract never resets: in every step other
\* than the close at the end of the run every contract keeps its state entry, and a
\* bid, ask or last that is set stays set, across file boundaries and failing files.
C21_StateNeverResets ==
    [][ closeCalls' = closeCalls =>
          \A ck \in DOMAIN state :
              /\ ck \in DOMAIN state'
              /\ state[ck].bid # None => state'[ck].bid # None
              /\ state[ck].ask # None => state'[ck].ask # None
              /\ state[ck].last # None => state'[ck].last # None
      ]_vars

\* the first file ended, the second file of the same contract is being read and has
\* read nothing yet, and bid, ask and last are all set
C21_Witness ==
    /\ pc = "rows"
    /\ tot.archivos = 2
    /\ tot.lineas = 3
    /\ cur.total_lineas = 0
    /\ state[cur.ck].bid # None
    /\ state[cur.ck].ask # None
    /\ state[cur.ck].last # None

\* C23: files are processed one after another in the order of the sequence, each to
\* its end or failure before the next begins, and a record is written at the end of
\* its contract's output in the step that reads its TRADE row, so that each output
\* holds its records in the order of their rows; nothing written is moved or changed.
C23_SequentialAndAppendOnly ==
    [][ /\ (pc # "main" /\ csv_paths' # csv_paths) =>
              /\ pc = "loop"
              /\ cur = NoCur
              /\ csv_paths' = Tail(csv_paths)
        /\ pc \in {"open", "rows"} => (cur' = NoCur \/ cur'.ck = cur.ck)
        /\ \A n \in DOMAIN out :
              /\ n \in DOMAIN out'
              /\ \/ out'[n] = out[n]
                 \/ /\ pc = "rows"
                    /\ n = outfile(cur.ck)
                    /\ Len(out'[n]) = Len(out[n]) + 1
                    /\ SubSeq(out'[n], 1, Len(out[n])) = out[n]
                    /\ \E campos \in TradeRows :
                          /\ ReadRow(campos)
                          /\ Fields(out'[n][Len(out'[n])])[2] = Strip(campos[4])
      ]_vars

\* a trade of the first file and a trade of the second file are in the output of
\* their contract, in the order of the files
C23_Witness ==
    /\ pc = "rows"
    /\ tot.archivos = 2
    /\ tot.trades_emitidos = 1
    /\ cur.l1_trades_emitidos = 1
    /\ LET o == out[outfile(cur.ck)] IN
       /\ Len(o) = 2
       /\ Fields(o[1])[2] = RowTradeLow[4]
       /\ Fields(o[2])[2] = RowTradeAtBid[4]

\* C24: when a file fails partway through reading nothing is rolled back: the step that
\* abandons the file leaves every output as it is and leaves every bid and ask, and
\* every state entry, in effect for the later files.
C24_FailureRollsNothingBack ==
    [][ (pc = "rows" /\ pc' = "loop") =>
          /\ \A n \in DOMAIN out :
                /\ n \in DOMAIN out'
                /\ Len(out'[n]) >= Len(out[n])
                /\ SubSeq(out'[n], 1, Len(out[n])) = out[n]
          /\ \A ck \in DOMAIN state :
                /\ ck \in DOMAIN state'
                /\ state'[ck].bid = state[ck].bid
                /\ state'[ck].ask = state[ck].ask
                /\ state[ck].last # None => state'[ck].last # None
      ]_vars

\* the first file failed after its trade was written; the first row of the second file
\* of the same contract is a trade and was emitted with the quotes of the failed file
C24_Witness ==
    /\ pc = "rows"
    /\ tot.archivos = 2
    /\ tot.lineas = 0
    /\ cur.total_lineas = 1
    /\ cur.l1_trades_emitidos = 1
    /\ Len(out[outfile(cur.ck)]) = 2

\* C26 as stated: no content of a row stops the processing of its file: whatever the
\* row, after it is read the file is still being read.
C26_NoRowStopsTheFile ==
    [][ \A campos \in Rows :
          (pc = "rows" /\ nread' = nread + 1 /\ ReadRow(campos)) => pc' = "rows"
      ]_vars

\* the number of records written to all outputs so far
RECURSIVE SumLen(_, _)
SumLen(f, S) ==
    IF S = {} THEN 0
    ELSE LET n == CHOOSE x \in S : TRUE IN Len(f[n]) + SumLen(f, S \ {n})

RecordsWritten == SumLen(out, DOMAIN out)

\* C29 as stated: when the run has ended, the run-level trades-emitted counter equals
\* the number of records appended to all outputs during the run.
C29_EmittedCounterMatchesOutput ==
    pc = "done" => tot.trades_emitidos = RecordsWritten

\* C30: the output handle and the BBO state of a file's contract are acquired before
\* the day-file is opened: while the day-file is about to be opened or is being read
\* the contract's output file exists, its handle is open and its state entry exists,
\* and a failure to open or read the day-file leaves all three in place.
C30_AcquiredBeforeOpen ==
    [][ /\ pc' \in {"open", "rows"} =>
              /\ cur'.ck \in DOMAIN handles'
              /\ fds'[handles'[cur'.ck]].open
              /\ fds'[handles'[cur'.ck]].name = outfile(cur'.ck)
              /\ outfile(cur'.ck) \in DOMAIN out'
              /\ cur'.ck \in DOMAIN state'
        /\ (pc \in {"open", "rows"} /\ pc' = "loop") =>
              /\ cur.ck \in DOMAIN handles'
              /\ fds'[handles'[cur.ck]].open
              /\ outfile(cur.ck) \in DOMAIN out'
              /\ cur.ck \in DOMAIN state'
      ]_vars

\* the only day-file of the run could not be opened: its contract's output file was
\* created and is open with no record in it, and the state entry is all unset
C30_Witness ==
    /\ pc = "loop"
    /\ csv_paths = <<>>
    /\ tot.archivos = 1
    /\ nread = 0
    /\ Len(fds) = 1
    /\ fds[1].open
    /\ out[fds[1].name] = <<>>
    /\ \E ck \in DOMAIN state : state[ck] = NewState

(***************************************************************************)
(* The row loop on the lines of one file.                                  *)
(***************************************************************************)
OneRow == pc = "returned" /\ fnIn.f = "export_rows" /\ Len(fnIn.lineas) = 1

\* C22: a row the parser accepts with a level other than 1 (of 5 or of 7 fields, of any
\* type) and a Level-1 row of a type other than 0, 1, 2 leave the BBO state as it was
\* and write nothing; a row of 7 fields with level 1 has the effect of the Level-1 row
\* made of its first five fields.
C22_OtherRowsChangeNothing ==
    (OneRow /\ parse_line_fields(fnIn.lineas[1]).ok) =>
        LET campos == fnIn.lineas[1]
            level == IntParse(campos[2]).val
            tipo == IntParse(campos[3]).val
        IN  /\ (level # 1 \/ tipo \notin {0, 1, 2}) =>
                  /\ fnOut.st = fnIn.st
                  /\ fnOut.written = <<>>
                  /\ ~fnOut.exc
                  /\ fnOut.cur.l1_trades_emitidos = 0
                  /\ fnOut.cur.l1_total = IF level = 1 THEN 1 ELSE 0
            /\ (level = 1 /\ Len(campos) = 7) =>
                  /\ fnOut = ExportRows(NoCur, fnIn.st, <<SubSeq(campos, 1, 5)>>)
                  /\ fnOut.cur.l1_total = 1
                  /\ tipo = 0 => fnOut.st = [fnIn.st EXCEPT !.bid = Strip(campos[4])]
                  /\ tipo = 1 => fnOut.st = [fnIn.st EXCEPT !.ask = Strip(campos[4])]
                  /\ tipo = 2 =>
                        /\ fnOut.st = [fnIn.st EXCEPT !.last = Strip(campos[4])]
                        /\ BothKnown(fnIn.st) <=> Len(fnOut.written) = 1

\* a Level-1 trade of 7 fields was emitted
C22_Witness ==
    /\ OneRow
    /\ Len(fnIn.lineas[1]) = 7
    /\ IntParse(fnIn.lineas[1][2]).val = 1
    /\ Len(fnOut.written) = 1
    /\ Fields(fnOut.written[1])[2] = Strip(fnIn.lineas[1][4])

\* a line skipped for a line-level reason: it has no field, or the parser returns None
\* for it (field count, timestamp, level or type)
SkippedLine(campos) == campos = <<>> \/ ~parse_line_fields(campos).ok

AllSkipped == \A i \in 1..Len(fnIn.lineas) : SkippedLine(fnIn.lineas[i])

NonBlank == {i \in 1..Len(fnIn.lineas) : fnIn.lineas[i] # <<>>}

\* C25 as stated: every line skipped for a line-level reason, a line without fields
\* included, adds one to the lines-total counter of the file and nothing to the others.
C25_EverySkippedLineCounted ==
    (pc = "returned" /\ fnIn.f = "export_rows" /\ AllSkipped) =>
        fnOut.cur = [NoCur EXCEPT !.total_lineas = Len(fnIn.lineas)]

\* C25: every line skipped for a line-level reason that has at least one field adds one
\* to the lines-total counter of the file and nothing to the other counters; a line
\* without fields is not counted at all.
C25_SkippedNonBlankLineCounted ==
    (pc = "returned" /\ fnIn.f = "export_rows" /\ AllSkipped) =>
        /\ fnOut.cur = [NoCur EXCEPT !.total_lineas = Cardinality(NonBlank)]
        /\ fnOut.st = fnIn.st
        /\ fnOut.written = <<>>
        /\ ~fnOut.exc

\* a file of three skipped lines, one of them without fields: two are counted
C25_Witness ==
    /\ pc = "returned"
    /\ fnIn.f = "export_rows"
    /\ AllSkipped
    /\ Len(fnIn.lineas) = 3
    /\ Cardinality(NonBlank) = 2
    /\ fnOut.cur.total_lineas = 2

(***************************************************************************)
(* compare_csv.py                                                          *)
(***************************************************************************)
Compared == pc = "returned" /\ fnIn.f = "compare_csv"

\* C28 as stated: compare_csvs returns 0 exactly when it counted no difference and 1
\* otherwise, and the process exits with status 1 if and only if --fail-on-diff was
\* given and at least one difference was found.
C28_ExitStatusOneIffFlagAndDiff ==
    Compared =>
        /\ ~fnOut.r.exc => fnOut.r.ret = (IF fnOut.r.total_differences = 0 THEN 0 ELSE 1)
        /\ fnOut.status = 1 <=> (fnIn.args.fail_on_diff /\ fnOut.r.total_differences >= 1)

\* C28: when both files can be opened, compare_csvs returns 0 exactly when it counted
\* no difference and 1 otherwise (two files with the same rows give 0, a file with
\* more lines than the other gives 1), and the process exits with status 1 exactly
\* when --fail-on-diff was given and a difference was found, and with status 0
\* otherwise, differences or not; when a file cannot be opened compare_csvs returns
\* nothing and the process ends with status 1 whatever the flag.
C28_ExitStatusWhenFilesOpen ==
    Compared =>
        LET a == fnIn.args IN
        IF a.file_a.exists /\ a.file_b.exists
        THEN /\ ~fnOut.r.exc
             /\ fnOut.r.ret = (IF fnOut.r.total_differences = 0 THEN 0 ELSE 1)
             /\ a.file_a.rows = a.file_b.rows => fnOut.r.ret = 0
             /\ Len(a.file_a.rows) # Len(a.file_b.rows) => fnOut.r.ret = 1
             /\ fnOut.status = (IF a.fail_on_diff /\ fnOut.r.total_differences >= 1
                                THEN 1 ELSE 0)
        ELSE fnOut.r.exc /\ fnOut.status = 1

\* differences were found without --fail-on-diff and the process exited normally
C28_Witness ==
    /\ Compared
    /\ ~fnIn.args.fail_on_diff
    /\ fnOut.r.total_differences >= 2
    /\ fnOut.r.ret = 1
    /\ fnOut.status = 0

(***************************************************************************)
(* Two runs into the same output directory.                                *)
(***************************************************************************)
\* C27: output is appended and never truncated, and BBO state is not carried between
\* runs: during the second run over the same input into the same output directory
\* every output still begins with what the first run wrote, a contract's state entry
\* is all unset when its first file of the second run is about to be read, and when
\* the second run has ended every output is the first run's output twice over.
C27_SecondRunAppendsSameRecords ==
    fnOut.done =>
        /\ \A n \in DOMAIN fnOut.out :
              /\ n \in DOMAIN out
              /\ Len(out[n]) >= Len(fnOut.out[n])
              /\ SubSeq(out[n], 1, Len(fnOut.out[n])) = fnOut.out[n]
        /\ (pc = "open" /\ tot.archivos = 1) => state[cur.ck] = NewState
        /\ pc = "done" =>
              /\ DOMAIN out = DOMAIN fnOut.out
              /\ \A n \in DOMAIN out : out[n] = fnOut.out[n] \o fnOut.out[n]
              /\ tot = fnOut.tot

\* the second run has ended; an output of one record after the first run now holds that
\* record twice, and the run read a trade before any quote
C27_Witness ==
    /\ fnOut.done
    /\ pc = "done"
    /\ Len(fnIn.rows[1]) >= 1
    /\ fnIn.rows[1][1] = RowTradeLow
    /\ \E n \in DOMAIN out : Len(fnOut.out[n]) = 1 /\ Len(out[n]) = 2 /\ out[n][1] = out[n][2]

(***************************************************************************)
(* Run-level counters.                                                     *)
(***************************************************************************)
\* the run totals other than the files-processed counter
LineTotals(x) == <<x.lineas, x.validas, x.l1, x.trades_emitidos, x.clamps>>

\* C31: the files-processed counter counts every file attempted, failed or not: it
\* grows by one for each path taken from the sequence, so that when the run ends
\* normally it equals the length of the input sequence; the line, Level-1, trade and
\* clamp totals change only when the processing of a file returns, by that file's
\* counters, and are left alone by a file that fails.
C31_FilesCountedTotalsOnlyOnReturn ==
    [][ /\ pc = "main" => tot'.archivos = 0
        /\ pc # "main" =>
              tot'.archivos + Len(csv_paths') = tot.archivos + Len(csv_paths)
        /\ pc' = "done" => csv_paths' = <<>>
        /\ \/ LineTotals(tot') = LineTotals(tot)
           \/ /\ pc = "rows"
              /\ pc' = "loop"
              /\ nread' = nread
              /\ LineTotals(tot') =
                    <<tot.lineas + cur.total_lineas, tot.validas + cur.lineas_validas,
                      tot.l1 + cur.l1_total,
                      tot.trades_emitidos + cur.l1_trades_emitidos,
                      tot.clamps + cur.clamps_aplicados>>
        /\ (pc = "open" \/ nread' # nread \/ ReadFail) => LineTotals(tot') = LineTotals(tot)
      ]_vars

\* a run over two files has ended: both were counted, one returned with two lines and
\* the other failed after lines of it had been read
C31_Witness ==
    /\ pc = "done"
    /\ tot.archivos = 2
    /\ tot.lineas = 2
    /\ nread = 4

(***************************************************************************)
(* Isolation of contracts.                                                 *)
(***************************************************************************)
\* C32: BBO state is isolated per contract identity: a step of the file of contract A
\* leaves the state entry and the output of every other contract as they were; a
\* contract met for the first time starts all unset whatever the other contracts
\* hold, and a record is written to a contract's output only after a BID and an ASK
\* of that same contract were read.
C32_ContractsIsolated ==
    [][ /\ pc \in {"open", "rows"} =>
              /\ \A ck \in DOMAIN state \ {cur.ck} :
                    closeCalls' = closeCalls => (ck \in DOMAIN state' /\ state'[ck] = state[ck])
              /\ \A n \in DOMAIN out \ {outfile(cur.ck)} : out'[n] = out[n]
        /\ pc = "loop" =>
              /\ \A ck \in DOMAIN state :
                    closeCalls' = closeCalls => (ck \in DOMAIN state' /\ state'[ck] = state[ck])
              /\ \A ck \in DOMAIN state' \ DOMAIN state : state'[ck] = NewState
              /\ \A n \in DOMAIN out : out'[n] = out[n]
              /\ \A n \in DOMAIN out' \ DOMAIN out : out'[n] = <<>>
        /\ (pc = "rows" /\ out' # out) =>
              /\ <<cur.ck, "bid">> \in seen'
              /\ <<cur.ck, "ask">> \in seen'
      ]_vars

\* after a rollover: the previous contract holds a bid and an ask, the file of the new
\* contract has read a trade, and nothing was written for the new contract
C32_Witness ==
    /\ pc = "rows"
    /\ tot.archivos = 2
    /\ cur.l1_total = 1
    /\ state[cur.ck] = [NewState EXCEPT !.last = RowTradeLow[4]]
    /\ out[outfile(cur.ck)] = <<>>
    /\ \E ck \in DOMAIN state :
          /\ ck # cur.ck
          /\ ck.symbol = cur.ck.symbol
          /\ state[ck].bid # None
          /\ state[ck].ask # None

(***************************************************************************)
(* Per-file counters.                                                      *)
(***************************************************************************)
Exported == pc = "returned" /\ fnIn.f = "export_rows" /\ ~fnOut.exc

\* the counters before the last line of the file was read
BeforeLastLine ==
    ExportRows(NoCur, fnIn.st,
               iter_csv_lineas(SubSeq(fnIn.lineas, 1, Len(fnIn.lineas) - 1))).cur

CounterNames ==
    {"total_lineas", "lineas_validas", "l1_total", "l1_trades_emitidos", "clamps_aplicados"}

\* C33: after every processed row the counters of the file satisfy lines_total >=
\* lines_valid >= level1_total >= trades_emitted >= clamps_applied >= 0, a row changes
\* each counter by at most one, and clamps_applied grows by exactly one for an emitted
\* record whose bid was above the trade price, whose ask was below it, or both, and
\* not at all otherwise.
C33_CountersOrderedAndStepByOne ==
    Exported =>
        LET c == fnOut.cur IN
        /\ c.total_lineas >= c.lineas_validas
        /\ c.lineas_validas >= c.l1_total
        /\ c.l1_total >= c.l1_trades_emitidos
        /\ c.l1_trades_emitidos >= c.clamps_aplicados
        /\ c.clamps_aplicados >= 0
        /\ c.l1_trades_emitidos = Len(fnOut.written)
        /\ fnIn.lineas # <<>> =>
              \A f \in CounterNames : c[f] - BeforeLastLine[f] \in {0, 1}
        /\ Len(fnIn.lineas) = 1 =>
              LET campos == fnIn.lineas[1]
                  bid == fnIn.st.bid
                  ask == fnIn.st.ask
              IN  c.clamps_aplicados =
                     IF /\ fnOut.written # <<>>
                        /\ Parses(Strip(campos[4])) /\ Parses(bid) /\ Parses(ask)
                        /\ \/ DecGT(bid, Strip(campos[4]))
                           \/ DecLT(ask, Strip(campos[4]))
                     THEN 1 ELSE 0

\* a trade between a bid above it and an ask below it was emitted with both clamped,
\* and one clamp was counted
C33_Witness ==
    /\ Exported
    /\ Len(fnIn.lineas) = 1
    /\ Len(fnOut.written) = 1
    /\ Parses(Strip(fnIn.lineas[1][4])) /\ Parses(fnIn.st.bid) /\ Parses(fnIn.st.ask)
    /\ DecGT(fnIn.st.bid, Strip(fnIn.lineas[1][4]))
    /\ DecLT(fnIn.st.ask, Strip(fnIn.lineas[1][4]))
    /\ Fields(fnOut.written[1])[3] = Fields(fnOut.written[1])[2]
    /\ Fields(fnOut.written[1])[4] = Fields(fnOut.written[1])[2]
    /\ fnOut.cur.clamps_aplicados = 1

(***************************************************************************)
(* ContractWriters.close                                                   *)
(***************************************************************************)
\* C34: close goes through every open handle even when the flush or close of one of
\* them raises: the call returns, every handle other than the ones that raised has
\* been flushed and closed, and afterwards the handle map and the state map are empty.
C34_CloseSurvivesHandleErrors ==
    (pc = "returned" /\ fnIn.f = "close") =>
        /\ closeCalls = 1
        /\ handles = EmptyMap
        /\ state = EmptyMap
        /\ DOMAIN fds = DOMAIN fnIn.fds
        /\ \A i \in DOMAIN fds :
              /\ fds[i].name = fnIn.fds[i].name
              /\ i \notin fnIn.flushFails => (~fds[i].open /\ ~fds[i].dirty)

\* two handles had been written to, the flush of the first raised, and the second was
\* flushed and closed all the same
C34_Witness ==
    /\ pc = "returned"
    /\ fnIn.f = "close"
    /\ fnIn.flushFails = {1}
    /\ Len(fnIn.fds) = 2
    /\ fnIn.fds[1].dirty /\ fnIn.fds[2].dirty
    /\ ~fds[2].open /\ ~fds[2].dirty
    /\ handles = EmptyMap
    /\ state = EmptyMap

====
